---- MODULE Spec2Model ----
(***************************************************************************)
(* Octra wallet: nonce sequencing (fetchBalance) and the batched           *)
(* multi-send (MultiSend.handleSendMultiple, FileMultiSend.handleSend)     *)
(* against the network's RPC endpoints /balance, /staging and /send-tx;     *)
(* and the public operations of utils/api.ts (sendTransaction, the         *)
(* encrypted balance, private transfers and their claims) as one caller    *)
(* runs them against a network that may fail every request.                *)
(*                                                                         *)
(* Browser tabs are the processes: every tab runs the same code for the    *)
(* same wallet address and the tabs share nothing but the network.         *)
(***************************************************************************)
EXTENDS Integers, Sequences, FiniteSets, TLC

\* ------------------------------------------------------------- bounds
\* Recipients of one multi-send in the single-tab specification.
MaxRecipients == 6
\* Recipients of one multi-send when two tabs send side by side.
MaxTabRecipients == 1
\* Largest confirmed transaction count the network starts with (SpecNonce).
MaxCount == 5
\* Largest nonce of a transaction staged before the session (SpecNonce).
MaxStagedNonce == 7
\* Largest confirmed transaction count at the start of Spec and SpecTabs.
MaxStartCount == 1
\* The account balance the network reports (native units).
AcctBalance == 50

\* Transactions of one sendMultipleTransactions call.
MaxItems == 2
\* Whole OCT the account holds, public and encrypted together.
MaxOct == 2
\* Largest numerator of an amount the user enters (amounts are n/d OCT).
MaxAmountNum == 2
\* Private transfers pending for the wallet.
MaxTransfers == 2
\* Calls one caller makes on the encrypted balance, one after another.
MaxBalanceCalls == 2
\* Calls one caller makes to list and claim transfers, one after another.
MaxClaimCalls == 3

\* ----------------------------------------------------- program constants
batchSize == 5
MU_FACTOR == 1000000

Tabs == {1, 2}
\* wallet.address of the session, and some other account of the network.
Wallet == "A"
Stranger == "B"

\* JavaScript's NaN: what parseFloat / parseInt give for a non-numeric field.
NaN == -1

Max(S) == CHOOSE x \in S : \A y \in S : y <= x
MaxOf(a, b) == IF a >= b THEN a ELSE b

\* ------------------------------------------------------ RPC responses
\* GET /balance/{address}: a network error (fetch rejects), a non-OK status,
\* an OK response whose body is not JSON, or an OK JSON body.
BalanceKinds == {"ok", "badBody", "nonOk", "netError"}
\* GET /staging: the same, plus an OK JSON body without staged_transactions.
StagingKinds == {"ok", "missing", "badBody", "nonOk", "netError"}
\* POST /send-tx: accepted JSON, "OK <hash>" text, another OK body, a non-OK
\* status, a network error.
SendKinds == {"accepted", "okText", "okOther", "rejected", "netError"}

NoResponse == [kind |-> "none"]
Pending == [kind |-> "pending"]

\* ---------------------------------------------------------- fetchBalance
\* parseInt(tx.nonce) || 0
ParseNonce(raw) == IF raw = NaN THEN 0 ELSE raw

\* The staged transactions of the address: filter(tx => tx.from === address)
OurPendingTxs(st, address) == {tx \in st.staged : tx.from = address}

NonceIgnoringOwner(nonce, st, address) ==
    IF st.kind = "ok" /\ st.staged # {}
    THEN MaxOf(nonce, Max({ParseNonce(tx.nonce) : tx \in st.staged}))
    ELSE nonce

NonceWithoutStaging(nonce, st, address) == nonce

\* nonce = max(transaction_count, highest pending nonce of the address); the
\* staging response counts only when it is OK, parses and has the list.
NonceFromStaging(nonce, st, address) ==
    IF st.kind = "ok" /\ OurPendingTxs(st, address) # {}
    THEN MaxOf(nonce, Max({ParseNonce(tx.nonce) : tx \in OurPendingTxs(st, address)}))
    ELSE nonce

Thrown == [thrown |-> TRUE, balance |-> 0, nonce |-> 0]

FetchBalanceStagingFatal(bal, st, address) ==
    IF bal.kind # "ok" \/ st.kind # "ok"
    THEN Thrown
    ELSE IF bal.balance = NaN
         THEN [thrown |-> FALSE, balance |-> 0, nonce |-> 0]
         ELSE [thrown |-> FALSE, balance |-> bal.balance,
               nonce |-> NonceFromStaging(bal.nonce, st, address)]

\* fetchBalance(address) on the two responses: throws when the balance
\* request fails; an OK body with a non-numeric balance gives {0, 0}.
fetchBalance(bal, st, address) ==
    IF bal.kind # "ok"
    THEN Thrown
    ELSE IF bal.balance = NaN
         THEN [thrown |-> FALSE, balance |-> 0, nonce |-> 0]
         ELSE [thrown |-> FALSE, balance |-> bal.balance,
               nonce |-> NonceFromStaging(bal.nonce, st, address)]

\* ------------------------------------------- createTransaction, sendTransaction
\* The nonce of the transaction at index i of batch b:
\* txIndex = batchIdx * batchSize + i; transactionNonce = currentNonce + 1 + txIndex
TransactionNonceNoBatchOffset(cur, b, i) == cur + 1 + i

TransactionNonce(cur, b, i) == cur + 1 + (b * batchSize + i)

CreateUnsigned(sender, recipientAddress, amount, txNonce) ==
    [from |-> sender, to_ |-> recipientAddress, amount |-> amount,
     nonce |-> txNonce, signed |-> FALSE]

\* createTransaction: the record that is signed and sent (the signature is
\* kept as the fact that the record was signed).
createTransaction(sender, recipientAddress, amount, txNonce) ==
    [from |-> sender, to_ |-> recipientAddress, amount |-> amount,
     nonce |-> txNonce, signed |-> TRUE]

\* sendTransaction's result on a response of the given kind: every OK
\* response is a success, a non-OK response and a thrown error are failures
\* (the promise never rejects).
sendTransaction(kind) ==
    [success |-> kind \in {"accepted", "okText", "okOther"}]

\* -------------------------------------------------------------- state
VARIABLES
    acctNonce,        \* network: the nonce field of /balance/{Wallet}
    staged,           \* network: the staged transactions (/staging)
    confirmed,        \* network: the transactions confirmed so far
    netChanged,       \* history: the network staged or confirmed something
    pc,               \* per tab: where its handler is suspended
    recipients,       \* per tab: the recipient form (component state)
    validRecipients,  \* per tab: the recipients of the running multi-send
    balResp,          \* per tab: response to fetchBalance's /balance request
    stResp,           \* per tab: response to fetchBalance's /staging request
    fetched,          \* per tab: what the last fetchBalance returned
    currentNonce,     \* per tab: let currentNonce of the handler
    batchIdx,         \* per tab: batchIdx of the batch loop
    txs,              \* per tab: the /send-tx requests started, in order
    results,          \* per tab: transactionResults
    nonce,            \* per tab: the dashboard's nonce state (the nonce prop)
    isSending,        \* per tab: component state isSending
    refreshDue,       \* per tab: the refresh the finished call scheduled
    fetches,          \* history: fetchBalance calls of the running multi-send
    known,            \* history: nonces of the wallet's transactions staged
                      \*   or confirmed when the running fetch was issued
    raced,            \* history: a transaction was confirmed between the
                      \*   balance read and the staging read of the fetch
    readOk,           \* history: the last fetch read a numeric balance and
                      \*   the list of staged transactions
    pristine          \* history: the fetch returned before the network
                      \*   staged or confirmed anything

VARIABLES
    cpc,              \* caller: the await its api call is suspended at
    callsLeft,        \* caller: calls it will still make
    call,             \* caller: operation and arguments of the running call
    reqs,             \* history: the requests the call made, with outcomes
    posted,           \* history: body of the call's last POST
    encData,          \* the call's fetchEncryptedBalance result
    outcome,          \* what the last call gave its caller
    items,            \* sendMultipleTransactions: its item promises
    multiHashes,      \* sendMultipleTransactions: the array it returned
    transfers,        \* ClaimTransfers: component state transfers
    shownBalance,     \* Balance: the balance prop (whole OCT)
    publicRaw,        \* network: public balance of the wallet (micro)
    encryptedRaw,     \* network: value of the stored balance ciphertext
    pendingTransfers, \* network: transfers pending for the wallet
    credits           \* network: per transfer id, times it was credited

callVars == <<cpc, callsLeft, call, reqs, posted, encData, outcome>>
multiVars == <<items, multiHashes>>
privNetVars == <<publicRaw, encryptedRaw, shownBalance>>
claimVars == <<transfers, pendingTransfers, credits>>

VARIABLES
    wallet,           \* App: state wallet (the active wallet, or null)
    wallets,          \* App: state wallets
    isLocked,         \* App: state isLocked
    storage,          \* the browser's localStorage
    rival,            \* a second encryptBalance / decryptBalance call on
                      \*   the same address, running beside the caller's
    pure              \* the last call of a synchronous function: its
                      \*   name, arguments and result

VARIABLES
    claimingId,       \* ClaimTransfers: state claimingId
    claimRuns,        \* ClaimTransfers: the handleClaim calls under way
    domainRows,       \* backend: the rows of the domains table
    regs              \* backend: the POST /register requests under way

sessionVars == <<wallet, wallets, isLocked, storage>>
lateVars == <<claimingId, claimRuns, domainRows, regs>>
extraVars == <<sessionVars, rival, pure, lateVars>>

\* claimingId null (transfer ids are positive).
NoClaim == 0

\* No claim is being made in the view and the backend is empty and idle.
LateIdle ==
    /\ claimingId = NoClaim
    /\ claimRuns = <<>>
    /\ domainRows = <<>>
    /\ regs = <<>>
coreVars == <<callVars, multiVars, privNetVars, claimVars, extraVars>>

netVars == <<acctNonce, staged, confirmed, netChanged>>
fetchVars == <<balResp, stResp, fetched, fetches, known, raced, readOk,
              pristine>>
sendVars == <<recipients, validRecipients, currentNonce, batchIdx, txs,
              results, isSending, refreshDue>>
walletVars == <<netVars, pc, fetchVars, sendVars, nonce>>
vars == <<walletVars, coreVars>>

\* ------------------------------------------------------------ recipients
\* The k-th row of the form: a distinct address and a positive amount.
\* (the message is kept as its length).
Recipient(k) == [address |-> k, amount |-> k, message |-> 0]
BlankRecipient == [address |-> 0, amount |-> 0, message |-> 0]
Form(n) == [k \in 1..n |-> Recipient(k)]

validateRecipientsAddressOnly(rs) == \A k \in DOMAIN rs : rs[k].address # 0

\* validateRecipients: every row has an address and a positive amount.
validateRecipients(rs) ==
    \A k \in DOMAIN rs : rs[k].address # 0 /\ rs[k].amount > 0

\* recipient.message.length > 1024 ends the handler before it sends.
MaxMessageLen == 1024
MessagesFit(rs) == \A k \in DOMAIN rs : rs[k].message <= MaxMessageLen

\* getTotalAmount() + getTotalFees(), in thousandths of a native unit (the
\* fee of an amount is 0.001 below 1000 and 0.003 from there on).
RECURSIVE TotalCost(_)
TotalCost(rs) ==
    IF rs = <<>> THEN 0
    ELSE LET a == IF Head(rs).amount = NaN THEN 0 ELSE Head(rs).amount
         IN a * 1000 + (IF a < 1000 THEN 1 ELSE 3) + TotalCost(Tail(rs))
\* balance !== null && totalCost > balance ends the handler as well.
Affordable(rs) == TotalCost(rs) <= AcctBalance * 1000

\* recipients.filter(r => (r.resolvedAddress || r.address) && Number(r.amount) > 0)
FilterValid(rs) == SelectSeq(rs, LAMBDA r : r.address # 0 /\ r.amount > 0)

\* The staged-transaction record the network keeps for request k of tab t.
StagedTx(t, k) == [from |-> txs[t][k].tx.from, nonce |-> txs[t][k].tx.nonce,
                   tab |-> t, idx |-> k]

WalletNonces(S) == {tx.nonce : tx \in {x \in S : x.from = Wallet}}

BatchItemsUnbatched(b, n) == IF b = 0 THEN 1..n ELSE {}

\* Positions (1-based) of the batch with index b among n recipients.
BatchItems(b, n) == {k \in 1..n : (k - 1) \div batchSize = b}
NumBatches(n) == (n + batchSize - 1) \div batchSize

\* ------------------------------------------------------------- network
\* The network answers the pending /balance request of tab t.
BalanceResponds(t) ==
    /\ pc[t] \in {"fetching", "refreshing"}
    /\ balResp[t] = Pending
    /\ \E kind \in BalanceKinds, b \in {AcctBalance, NaN} :
         balResp' = [balResp EXCEPT ![t] =
            IF kind = "ok"
            THEN [kind |-> "ok", balance |-> b, nonce |-> acctNonce]
            ELSE [kind |-> kind, balance |-> 0, nonce |-> 0]]
    /\ UNCHANGED <<netVars, pc, stResp, fetched, fetches, known, raced,
                   readOk, pristine, sendVars, nonce>>
    /\ UNCHANGED coreVars

\* The network answers the pending /staging request of tab t.
StagingResponds(t) ==
    /\ pc[t] \in {"fetching", "refreshing"}
    /\ stResp[t] = Pending
    /\ \E kind \in StagingKinds :
         stResp' = [stResp EXCEPT ![t] =
            [kind |-> kind, staged |-> IF kind = "ok" THEN staged ELSE {}]]
    /\ UNCHANGED <<netVars, pc, balResp, fetched, fetches, known, raced,
                   readOk, pristine, sendVars, nonce>>
    /\ UNCHANGED coreVars

\* The network confirms a staged transaction: the sender's confirmed count
\* moves up to its nonce.
Confirm ==
    /\ \E tx \in staged :
         /\ staged' = staged \ {tx}
         /\ confirmed' = confirmed \cup {tx}
         /\ acctNonce' = IF tx.from = Wallet
                         THEN MaxOf(acctNonce, tx.nonce) ELSE acctNonce
         /\ raced' = [t \in Tabs |->
                        \/ raced[t]
                        \/ /\ tx.from = Wallet
                           /\ pc[t] = "fetching"
                           /\ balResp[t] # Pending
                           /\ stResp[t] = Pending]
    /\ netChanged' = TRUE
    /\ UNCHANGED <<pc, balResp, stResp, fetched, fetches, known, readOk,
                   pristine, sendVars, nonce>>
    /\ UNCHANGED coreVars

\* The kinds of /send-tx response the network gives in the send flows.
ServedSendKinds == {"accepted", "rejected", "netError"}

\* The network answers request k of tab t; an accepted transaction is staged.
SendResponds(t) ==
    /\ \E k \in DOMAIN txs[t] :
         /\ txs[t][k].status = "inflight"
         /\ \E kind \in ServedSendKinds :
              /\ txs' = [txs EXCEPT ![t][k].status = kind]
              /\ staged' = IF kind = "accepted"
                           THEN staged \cup {StagedTx(t, k)} ELSE staged
              /\ netChanged' = (netChanged \/ kind = "accepted")
    /\ UNCHANGED <<acctNonce, confirmed, pc, fetchVars, recipients,
                   validRecipients, currentNonce, batchIdx, results,
                   isSending, refreshDue, nonce>>
    /\ UNCHANGED coreVars

\* ------------------------------------------------ the dashboard's refresh
\* WalletDashboard.handleBalanceUpdate: fetchBalance, then setNonce. The
\* dashboard runs it on its own and through the callbacks of a multi-send
\* that had a success (onBalanceUpdate from the 2 s timer).
StartRefresh(t) ==
    /\ pc[t] = "idle" \/ (pc[t] = "done" /\ refreshDue[t])
    /\ pc' = [pc EXCEPT ![t] = "refreshing"]
    /\ balResp' = [balResp EXCEPT ![t] = Pending]
    /\ stResp' = [stResp EXCEPT ![t] = Pending]
    /\ UNCHANGED <<netVars, fetched, fetches, known, raced, readOk,
                   pristine, sendVars, nonce>>
    /\ UNCHANGED coreVars

\* Promise.all of fetchBalance settles: both responses are in, or the
\* balance request was rejected.
FetchSettled(t) ==
    /\ balResp[t] # Pending
    /\ (stResp[t] # Pending \/ balResp[t].kind = "netError")

\* The staging response fetchBalance sees (none when Promise.all rejected
\* before the staging request answered).
StagingSeen(t) ==
    IF stResp[t] = Pending THEN [kind |-> "netError", staged |-> {}] ELSE stResp[t]

\* The settled responses are consumed; what was read is remembered.
ResponsesRead(t) ==
    /\ readOk' = [readOk EXCEPT ![t] =
                    /\ balResp[t].kind = "ok"
                    /\ balResp[t].balance # NaN
                    /\ StagingSeen(t).kind = "ok"]
    /\ balResp' = [balResp EXCEPT ![t] = NoResponse]
    /\ stResp' = [stResp EXCEPT ![t] = NoResponse]

RefreshReturns(t) ==
    /\ pc[t] = "refreshing"
    /\ FetchSettled(t)
    /\ LET r == fetchBalance(balResp[t], StagingSeen(t), Wallet) IN
         /\ fetched' = [fetched EXCEPT ![t] = r]
         /\ nonce' = [nonce EXCEPT ![t] = IF r.thrown THEN @ ELSE r.nonce]
    /\ ResponsesRead(t)
    /\ pc' = [pc EXCEPT ![t] = IF refreshDue[t] THEN "done" ELSE "idle"]
    /\ refreshDue' = [refreshDue EXCEPT ![t] = FALSE]
    /\ UNCHANGED <<netVars, fetches, known, raced, pristine, recipients,
                   validRecipients, currentNonce, batchIdx, txs, results,
                   isSending>>
    /\ UNCHANGED coreVars

\* ----------------------------------- MultiSend.handleSendMultiple, per tab
\* The handler up to its first suspension point: the guards pass (a wallet,
\* valid recipients), setIsSending(true), setResults([]), and fetchBalance
\* issues its two requests.
StartSend(t) ==
    /\ pc[t] = "idle"
    /\ validateRecipients(recipients[t])
    /\ Affordable(recipients[t])
    /\ MessagesFit(recipients[t])
    /\ pc' = [pc EXCEPT ![t] = "fetching"]
    /\ isSending' = [isSending EXCEPT ![t] = TRUE]
    /\ results' = [results EXCEPT ![t] = <<>>]
    /\ txs' = [txs EXCEPT ![t] = <<>>]
    /\ balResp' = [balResp EXCEPT ![t] = Pending]
    /\ stResp' = [stResp EXCEPT ![t] = Pending]
    /\ fetches' = [fetches EXCEPT ![t] = 1]
    /\ known' = [known EXCEPT ![t] = WalletNonces(staged \cup confirmed)]
    /\ raced' = [raced EXCEPT ![t] = FALSE]
    /\ UNCHANGED <<netVars, fetched, readOk, pristine, recipients,
                   validRecipients, currentNonce, batchIdx, refreshDue, nonce>>
    /\ UNCHANGED coreVars

\* The handler ends at one of its early returns, with an error toast: the
\* recipients are not valid, the balance does not cover the total, or a
\* message is too long.
RejectSend(t) ==
    /\ pc[t] = "idle"
    /\ \/ ~validateRecipients(recipients[t])
       \/ ~Affordable(recipients[t])
       \/ ~MessagesFit(recipients[t])
    /\ pc' = [pc EXCEPT ![t] = "rejected"]
    /\ UNCHANGED <<netVars, fetchVars, sendVars, nonce>>
    /\ UNCHANGED coreVars

NonceFromProp(t, r) == nonce[t]

\* let currentNonce = freshBalanceData.nonce
FreshNonce(t, r) == r.nonce

\* fetchBalance returns: on a throw the handler's catch ends the call; else
\* the nonce is taken and the batch loop starts.
FetchReturns(t) ==
    /\ pc[t] = "fetching"
    /\ FetchSettled(t)
    /\ LET r == fetchBalance(balResp[t], StagingSeen(t), Wallet) IN
         /\ fetched' = [fetched EXCEPT ![t] = r]
         /\ IF r.thrown
            THEN /\ pc' = [pc EXCEPT ![t] = "failed"]
                 /\ isSending' = [isSending EXCEPT ![t] = FALSE]
                 /\ UNCHANGED <<currentNonce, validRecipients, batchIdx>>
            ELSE /\ currentNonce' = [currentNonce EXCEPT ![t] = FreshNonce(t, r)]
                 /\ validRecipients' = [validRecipients EXCEPT ![t] =
                                          FilterValid(recipients[t])]
                 /\ batchIdx' = [batchIdx EXCEPT ![t] = 0]
                 /\ pc' = [pc EXCEPT ![t] = "prepare"]
                 /\ UNCHANGED isSending
    /\ ResponsesRead(t)
    /\ pristine' = [pristine EXCEPT ![t] = ~netChanged]
    /\ UNCHANGED <<netVars, fetches, known, raced, recipients, txs, results,
                   refreshDue, nonce>>
    /\ UNCHANGED coreVars

\* One round of the preparation loop: the next recipient's nonce is
\* assigned, its transaction created and signed, and sendTransaction starts
\* its request (the call runs to its first await, the fetch).
PrepareItem(t) ==
    /\ pc[t] = "prepare"
    /\ LET k == Len(txs[t]) + 1
           i == (k - 1) - batchIdx[t] * batchSize
           r == validRecipients[t][k]
           tx == createTransaction(Wallet, r.address, r.amount,
                                   TransactionNonce(currentNonce[t], batchIdx[t], i))
       IN /\ txs' = [txs EXCEPT ![t] = Append(@, [tx |-> tx, status |-> "inflight"])]
          /\ pc' = [pc EXCEPT ![t] =
                      IF k + 1 \in BatchItems(batchIdx[t], Len(validRecipients[t]))
                      THEN "prepare" ELSE "await"]
    /\ UNCHANGED <<netVars, fetchVars, recipients, validRecipients,
                   currentNonce, batchIdx, results, isSending, refreshDue,
                   nonce>>
    /\ UNCHANGED coreVars

AnySettled(t) ==
    \E k \in BatchItems(batchIdx[t], Len(validRecipients[t])) :
        txs[t][k].status # "inflight"

\* await Promise.allSettled(batchPromises): every request of the batch has
\* its outcome.
AllSettled(t) ==
    \A k \in BatchItems(batchIdx[t], Len(validRecipients[t])) :
        txs[t][k].status # "inflight"

\* The entry pushed for position k: sendTransaction's result with the
\* recipient's address and amount.
ResultOf(t, k) ==
    [success |-> sendTransaction(txs[t][k].status).success,
     recipient |-> validRecipients[t][k].address,
     amount |-> validRecipients[t][k].amount]

BatchFrom(t, k) == (batchIdx[t] * batchSize) + 1

BatchResultsSkipFailed(t) ==
    LET lo == BatchFrom(t, 0)
        hi == Max(BatchItems(batchIdx[t], Len(validRecipients[t])))
        all == [j \in 1..(hi - lo + 1) |-> ResultOf(t, lo + j - 1)]
    IN SelectSeq(all, LAMBDA e : e.success)

BatchResultsAllOrNothing(t) ==
    LET lo == BatchFrom(t, 0)
        hi == Max(BatchItems(batchIdx[t], Len(validRecipients[t])))
        bad == \E k \in lo..hi : ~sendTransaction(txs[t][k].status).success
    IN [j \in 1..(hi - lo + 1) |->
          [ResultOf(t, lo + j - 1) EXCEPT !.success = @ /\ ~bad]]

\* The batch's results in the order of the batch (batchResults[i] belongs to
\* batch[i]).
BatchResults(t) ==
    LET lo == BatchFrom(t, 0)
        hi == Max(BatchItems(batchIdx[t], Len(validRecipients[t])))
    IN [j \in 1..(hi - lo + 1) |-> ResultOf(t, lo + j - 1)]

SuccessCountAll(rs) == Len(rs)

\* transactionResults.filter(r => r.success).length
SuccessCount(rs) == Cardinality({k \in DOMAIN rs : rs[k].success})

\* The batch is joined: its results are pushed; then either the pacing
\* delay starts or, after the last batch, the call ends: setResults, and
\* with a success the form reset (all succeeded) and onNonceUpdate.
BatchSettled(t) ==
    /\ pc[t] = "await"
    /\ AllSettled(t)
    /\ LET rs == results[t] \o BatchResults(t)
           successCount == SuccessCount(rs)
       IN /\ results' = [results EXCEPT ![t] = rs]
          /\ IF batchIdx[t] < NumBatches(Len(validRecipients[t])) - 1
             THEN /\ pc' = [pc EXCEPT ![t] = "delay"]
                  /\ UNCHANGED <<recipients, nonce, isSending, refreshDue>>
             ELSE /\ pc' = [pc EXCEPT ![t] = "done"]
                  /\ isSending' = [isSending EXCEPT ![t] = FALSE]
                  /\ recipients' = [recipients EXCEPT ![t] =
                        IF successCount > 0 /\ successCount = Len(rs)
                        THEN <<BlankRecipient>> ELSE @]
                  /\ nonce' = [nonce EXCEPT ![t] =
                        IF successCount > 0
                        THEN currentNonce[t] + successCount ELSE @]
                  /\ refreshDue' = [refreshDue EXCEPT ![t] = successCount > 0]
    /\ UNCHANGED <<netVars, fetchVars, validRecipients, currentNonce,
                   batchIdx, txs>>
    /\ UNCHANGED coreVars

\* The 50 ms pacing delay between two batches has passed.
DelayElapsed(t) ==
    /\ pc[t] = "delay"
    /\ batchIdx' = [batchIdx EXCEPT ![t] = @ + 1]
    /\ pc' = [pc EXCEPT ![t] = "prepare"]
    /\ UNCHANGED <<netVars, fetchVars, recipients, validRecipients,
                   currentNonce, txs, results, isSending, refreshDue, nonce>>
    /\ UNCHANGED coreVars

\* ------------------------------------------- utils/api.ts: its callers' view
\* Transaction hashes (64 hex digits each).
Hashes == {"h1", "h2"}
Undefined == "undefined"
NoMatch == "no match"
\* error.message of a rejected fetch, and of a body that is not JSON.
FetchError == "Failed to fetch"
JsonError == "Unexpected token"
\* The body of a non-OK response of the node.
NodeError == "rejected by node"

\* How a request ends: an OK response with a JSON body, an OK response whose
\* body is not the expected JSON, a non-OK response, a rejected fetch.
RpcKinds == {"ok", "badBody", "nonOk", "netError"}
RpcFailed(kind) == kind \in {"badBody", "nonOk", "netError"}

\* Bodies of /send-tx responses: the two documented forms and others.
SendTexts ==
    {"{status:accepted,tx_hash:h1}", "{status:accepted,tx_hash:h2}",
     "{status:accepted}", "{status:rejected,error:bad nonce}", "{tx_hash:h1}",
     "null", "\"OK h1\"", "OK h1", "OK h2", "nonce too low, last OK h1",
     "invalid signature", ""}

\* JSON.parse(text): whether it returns, whether the value is null, and the
\* status and tx_hash members of the value.
JSONParse(text) ==
    CASE text = "{status:accepted,tx_hash:h1}" ->
           [parsed |-> TRUE, null |-> FALSE, status |-> "accepted", tx_hash |-> "h1"]
      [] text = "{status:accepted,tx_hash:h2}" ->
           [parsed |-> TRUE, null |-> FALSE, status |-> "accepted", tx_hash |-> "h2"]
      [] text = "{status:accepted}" ->
           [parsed |-> TRUE, null |-> FALSE, status |-> "accepted", tx_hash |-> Undefined]
      [] text = "{status:rejected,error:bad nonce}" ->
           [parsed |-> TRUE, null |-> FALSE, status |-> "rejected", tx_hash |-> Undefined]
      [] text = "{tx_hash:h1}" ->
           [parsed |-> TRUE, null |-> FALSE, status |-> Undefined, tx_hash |-> "h1"]
      [] text = "null" ->
           [parsed |-> TRUE, null |-> TRUE, status |-> Undefined, tx_hash |-> Undefined]
      [] text = "\"OK h1\"" ->
           [parsed |-> TRUE, null |-> FALSE, status |-> Undefined, tx_hash |-> Undefined]
      [] OTHER ->
           [parsed |-> FALSE, null |-> FALSE, status |-> Undefined, tx_hash |-> Undefined]

\* text.match(/OK\s+([0-9a-fA-F]{64})/): the captured hash of the first match.
HashMatch(text) ==
    CASE text \in {"OK h1", "\"OK h1\"", "nonce too low, last OK h1"} -> "h1"
      [] text = "OK h2" -> "h2"
      [] OTHER -> NoMatch

RpcResponse(ok, text) == [kind |-> "response", ok |-> ok, text |-> text]
RpcRejected == [kind |-> "netError", ok |-> FALSE, text |-> FetchError]
SendResponses ==
    {RpcResponse(ok, text) : ok \in BOOLEAN, text \in SendTexts} \cup {RpcRejected}

Succeeded(hash) == [success |-> TRUE, hash |-> hash, error |-> Undefined]
Failed(error) == [success |-> FALSE, hash |-> Undefined, error |-> error]

\* sendTransaction on the response of /send-tx: the try around JSON.parse
\* also covers data.status, which throws on null; its catch tries the
\* "OK <hash>" text; every other OK response falls through to success with
\* the body as the hash.
sendTransactionResult(resp) ==
    IF resp.kind = "netError" THEN Failed(resp.text)
    ELSE IF resp.ok
         THEN LET data == JSONParse(resp.text)
                  threw == ~data.parsed \/ data.null
              IN IF ~threw /\ data.status = "accepted"
                 THEN Succeeded(data.tx_hash)
                 ELSE IF threw /\ HashMatch(resp.text) # NoMatch
                      THEN Succeeded(HashMatch(resp.text))
                      ELSE Succeeded(resp.text)
         ELSE Failed(resp.text)

\* ------------------------------------------------------------ the caller
NoCall == [op |-> "none", num |-> 0, den |-> 1, id |-> 0]
NoOutcome == [op |-> "none", how |-> "none", success |-> FALSE,
              hash |-> Undefined, error |-> Undefined, amount |-> 0]
NoData == [key |-> <<"none", "none">>, plain |-> 0]
NoPost == [endpoint |-> "none", amount |-> 0, data |-> NoData, id |-> 0]
NoEncData == [null |-> TRUE, public_raw |-> 0, encrypted_raw |-> 0]

\* localStorage.getItem gives null for a key that is not set.
Absent == "null"
NoWallet == "null"
\* The wallets a user of the browser owns; a Wallet object carries its
\* private key.
WalletIds == {Wallet, "C"}
\* A JSON array kept under a storage key, or the key not set.
NoList == [present |-> FALSE, items |-> <<>>]
Stored(list) == [present |-> TRUE, items |-> list]
NoStorage ==
    [wallets |-> NoList, activeWalletId |-> Absent, encryptedWallets |-> NoList,
     walletPasswordHash |-> Absent, walletPasswordSalt |-> Absent,
     isWalletLocked |-> Absent, theme |-> Absent]
NoRival == [pc |-> "none", op |-> "none", amount |-> 0, encData |-> NoEncData,
            posted |-> NoPost, success |-> FALSE, before |-> 0]
NoPure == <<>>

\* The session the api's caller and the multi-send run in: the wallet was
\* added without a password and is the active one.
SessionOpen ==
    /\ wallet = Wallet
    /\ wallets = <<Wallet>>
    /\ isLocked = FALSE
    /\ storage = [NoStorage EXCEPT !.wallets = Stored(<<Wallet>>),
                                   !.activeWalletId = Wallet]
    /\ rival = NoRival
    /\ pure = NoPure
    /\ LateIdle

CallerIdle ==
    /\ SessionOpen
    /\ cpc = "idle"
    /\ call = NoCall
    /\ reqs = <<>>
    /\ posted = NoPost
    /\ encData = NoEncData
    /\ outcome = NoOutcome
    /\ items = <<>>
    /\ multiHashes = <<>>
    /\ credits = [i \in 1..MaxTransfers |-> 0]

\* The state the wallet's specifications keep the core's caller in.
CoreIdle ==
    /\ CallerIdle
    /\ callsLeft = 0
    /\ publicRaw = MaxOct * MU_FACTOR
    /\ encryptedRaw = 0
    /\ shownBalance = publicRaw
    /\ pendingTransfers = <<>>
    /\ transfers = <<>>

\* The call returned r = {success, hash, error} to its caller.
Returned(op, r) ==
    [op |-> op, how |-> "returned", success |-> r.success, hash |-> r.hash,
     error |-> r.error, amount |-> 0]
\* The call's promise rejected: the caller's await throws.
Threw(op, error) ==
    [op |-> op, how |-> "thrown", success |-> FALSE, hash |-> Undefined,
     error |-> error, amount |-> 0]

Request(endpoint) == [endpoint |-> endpoint, kind |-> "pending", text |-> Undefined]
\* The request in flight is answered.
Answered(kind, text) ==
    [reqs EXCEPT ![Len(reqs)] = [@ EXCEPT !.kind = kind, !.text = text]]

\* A call starts: the previous call's history is dropped.
Begin(op, num, den, id, next) ==
    /\ cpc = "idle"
    /\ callsLeft > 0
    /\ callsLeft' = callsLeft - 1
    /\ cpc' = next
    /\ call' = [op |-> op, num |-> num, den |-> den, id |-> id]
    /\ outcome' = NoOutcome
    /\ encData' = NoEncData

\* sendTransaction(transaction): the request starts.
StartSendTx ==
    /\ \E n \in 1..MaxItems : Begin("sendTransaction", 1, 1, n, "sendTx")
    /\ posted' = [endpoint |-> "/send-tx", amount |-> 1, data |-> NoData, id |-> 0]
    /\ reqs' = <<Request("/send-tx")>>
    /\ items' = <<>>
    /\ multiHashes' = <<>>
    /\ UNCHANGED <<privNetVars, claimVars, walletVars, extraVars>>

SendTxAnswered ==
    /\ cpc = "sendTx"
    /\ \E resp \in SendResponses :
         /\ reqs' = Answered(IF resp.kind = "netError" THEN "netError"
                             ELSE IF resp.ok THEN "ok" ELSE "nonOk", resp.text)
         /\ outcome' = Returned("sendTransaction", sendTransactionResult(resp))
    /\ cpc' = "idle"
    /\ UNCHANGED <<callsLeft, call, posted, encData, multiVars, privNetVars, claimVars,
                   walletVars, extraVars>>

\* sendMultipleTransactions(transactions): every item's async function runs
\* to its first await, so all the requests are started; the nonce is 0.
StartSendMultiple ==
    /\ \E n \in 1..MaxItems :
         /\ Begin("sendMultipleTransactions", 1, 1, n, "multi")
         /\ items' = [k \in 1..n |->
                        [tx |-> createTransaction(Wallet, k, k, 0),
                         status |-> "inflight", hash |-> Undefined]]
    /\ multiHashes' = <<>>
    /\ posted' = NoPost
    /\ reqs' = <<>>
    /\ UNCHANGED <<privNetVars, claimVars, walletVars, extraVars>>

\* The responses the node gives to the requests of a batch.
MultiResponses ==
    {RpcResponse(TRUE, "{status:accepted,tx_hash:h1}"),
     RpcResponse(TRUE, "OK h2"), RpcResponse(TRUE, ""),
     RpcResponse(FALSE, "invalid signature"), RpcRejected}

\* result.success && result.hash
ItemSucceeded(r) == r.success /\ r.hash \notin {"", Undefined}

\* await Promise.all(promises) with every item fulfilled: the hashes in the
\* order of the items.
HashesOf(its) == [k \in DOMAIN its |-> its[k].hash]

\* The request of item k is answered. The item's function returns the hash
\* or throws; Promise.all rejects with the first throw, and fulfils when
\* every item has returned. Items answered after the rejection are dropped.
MultiItemAnswered ==
    /\ cpc \in {"multi", "multiTail"}
    /\ \E k \in DOMAIN items, resp \in MultiResponses :
         /\ items[k].status = "inflight"
         /\ LET r == sendTransactionResult(resp)
                good == ItemSucceeded(r)
                its == [items EXCEPT ![k] =
                          [@ EXCEPT !.status = IF good THEN "hash" ELSE "failed",
                                    !.hash = IF good THEN r.hash ELSE Undefined]]
                left == \E j \in DOMAIN its : its[j].status = "inflight"
            IN /\ items' = its
               /\ IF cpc = "multi" /\ ~good
                  THEN /\ outcome' = Threw("sendMultipleTransactions",
                                           IF r.error = Undefined
                                           THEN "Transaction failed" ELSE r.error)
                       /\ UNCHANGED multiHashes
                  ELSE IF cpc = "multi" /\ ~left
                       THEN /\ outcome' = Returned("sendMultipleTransactions",
                                                   Succeeded(Undefined))
                            /\ multiHashes' = HashesOf(its)
                       ELSE UNCHANGED <<outcome, multiHashes>>
               /\ cpc' = IF ~left THEN "idle"
                         ELSE IF good THEN cpc ELSE "multiTail"
    /\ UNCHANGED <<callsLeft, call, reqs, posted, encData, privNetVars, claimVars,
                   walletVars, extraVars>>

\* fetchTransactionDetails on the response of /tx/{hash}.
fetchTransactionDetails(kind) ==
    CASE kind = "ok" -> [thrown |-> FALSE, error |-> Undefined]
      [] kind = "nonOk" -> [thrown |-> TRUE, error |-> "Error status"]
      [] kind = "badBody" ->
           [thrown |-> TRUE, error |-> "Invalid JSON response from server"]
      [] OTHER -> [thrown |-> TRUE, error |-> FetchError]

\* fetchTransactionHistory on the response of /address/{address}; the
\* pending list never fails it (fetchPendingTransactions returns []) and a
\* failed detail fetch is replaced by a placeholder transaction.
fetchTransactionHistory(address, pending, details) ==
    CASE address = "ok" -> [thrown |-> FALSE, error |-> Undefined]
      [] address = "nonOk" -> [thrown |-> TRUE, error |-> "Error status"]
      [] address = "badBody" ->
           [thrown |-> TRUE, error |-> "Invalid JSON response from server"]
      [] OTHER -> [thrown |-> TRUE, error |-> FetchError]

\* What a fetch function hands its caller: its value, or the rethrown error.
Fetched(op, r) ==
    IF r.thrown THEN Threw(op, r.error) ELSE Returned(op, Succeeded(Undefined))

StartDetails ==
    /\ Begin("fetchTransactionDetails", 1, 1, 1, "details")
    /\ posted' = NoPost
    /\ reqs' = <<Request("/tx")>>
    /\ items' = <<>>
    /\ multiHashes' = <<>>
    /\ UNCHANGED <<privNetVars, claimVars, walletVars, extraVars>>

DetailsAnswered ==
    /\ cpc = "details"
    /\ \E kind \in RpcKinds :
         /\ reqs' = Answered(kind, Undefined)
         /\ outcome' = Fetched("fetchTransactionDetails",
                               fetchTransactionDetails(kind))
    /\ cpc' = "idle"
    /\ UNCHANGED <<callsLeft, call, posted, encData, multiVars, privNetVars, claimVars,
                   walletVars, extraVars>>

\* fetchTransactionHistory: /address and /staging are requested together.
StartHistory ==
    /\ Begin("fetchTransactionHistory", 1, 1, 1, "history")
    /\ posted' = NoPost
    /\ reqs' = <<Request("/staging"), Request("/address")>>
    /\ items' = <<>>
    /\ multiHashes' = <<>>
    /\ UNCHANGED <<privNetVars, claimVars, walletVars, extraVars>>

\* Both are answered; with an address body the details of its recent
\* transaction are fetched and the call returns.
HistoryAnswered ==
    /\ cpc = "history"
    /\ \E address \in RpcKinds, pending \in RpcKinds, details \in RpcKinds :
         /\ reqs' = IF address = "ok"
                    THEN <<[Request("/staging") EXCEPT !.kind = pending],
                           [Request("/address") EXCEPT !.kind = address],
                           [Request("/tx") EXCEPT !.kind = details]>>
                    ELSE <<[Request("/staging") EXCEPT !.kind = pending],
                           [Request("/address") EXCEPT !.kind = address]>>
         /\ outcome' = Fetched("fetchTransactionHistory",
                               fetchTransactionHistory(address, pending, details))
    /\ cpc' = "idle"
    /\ UNCHANGED <<callsLeft, call, posted, encData, multiVars, privNetVars, claimVars,
                   walletVars, extraVars>>

\* Balance.fetchWalletBalance: fetchBalance, then onBalanceUpdate(balance).
\* The balance field is carried in micro-units.
StartBalance ==
    /\ Begin("fetchBalance", 1, 1, 1, "balance")
    /\ posted' = NoPost
    /\ reqs' = <<Request("/balance"), Request("/staging")>>
    /\ items' = <<>>
    /\ multiHashes' = <<>>
    /\ UNCHANGED <<privNetVars, claimVars, walletVars, extraVars>>

BalanceFetched ==
    /\ cpc = "balance"
    /\ \E bk \in BalanceKinds, sk \in StagingKinds, b \in {publicRaw, NaN} :
         LET bal == IF bk = "ok"
                    THEN [kind |-> "ok", balance |-> b, nonce |-> acctNonce]
                    ELSE [kind |-> bk, balance |-> 0, nonce |-> 0]
             st == [kind |-> sk, staged |-> IF sk = "ok" THEN staged ELSE {}]
             r == fetchBalance(bal, st, Wallet)
         IN /\ reqs' = <<[Request("/balance") EXCEPT !.kind = bk],
                         [Request("/staging") EXCEPT !.kind = sk]>>
            /\ outcome' = Fetched("fetchBalance",
                                  [thrown |-> r.thrown, error |-> FetchError])
            /\ shownBalance' = IF r.thrown THEN shownBalance ELSE r.balance
    /\ cpc' = "idle"
    /\ UNCHANGED <<callsLeft, call, posted, encData, multiVars, publicRaw, encryptedRaw,
                   claimVars, walletVars, extraVars>>

\* ------------------------------------------------- the encrypted balance
\* The private key of the wallet.
WalletKey == "skA"

\* Math.floor(amount * MU_FACTOR) for the amount num/den OCT (whole and
\* fractional part apart, to stay within the checker's integers).
ToMicro(num, den) ==
    (num \div den) * MU_FACTOR + ((num % den) * MU_FACTOR) \div den

\* Denominators of the amounts a user enters.
AmountDens == {1, 3}

\* encryptClientBalance(value, privateKey): the value sealed under a key
\* derived from the private key.
DeriveKey(privateKey) == <<"balance key", privateKey>>
encryptClientBalance(value, privateKey) ==
    [key |-> DeriveKey(privateKey), plain |-> value]
\* The value a ciphertext opens to under the key derived from privateKey.
DecodeBalance(data, privateKey) ==
    IF data.key = DeriveKey(privateKey) THEN data.plain ELSE NaN

\* GET /view_encrypted_balance: as RpcKinds, or a JSON body without the raw
\* fields.
ViewKinds == RpcKinds \cup {"noRaw"}

\* fetchEncryptedBalance: null unless the response is OK and parses; a
\* missing raw field reads as '0'.
fetchEncryptedBalance(kind, pub, enc) ==
    CASE kind = "ok" ->
           [null |-> FALSE, public_raw |-> pub, encrypted_raw |-> enc]
      [] kind = "noRaw" ->
           [null |-> FALSE, public_raw |-> 0, encrypted_raw |-> 0]
      [] OTHER -> NoEncData

PostResultAlwaysOk(kind) == Succeeded("h1")

\* The result of a POST whose OK body is read with response.json().
PostResult(kind) ==
    CASE kind = "ok" -> Succeeded("h1")
      [] kind = "badBody" -> Failed(JsonError)
      [] kind = "nonOk" -> Failed(NodeError)
      [] OTHER -> Failed(FetchError)

NewTotalPatched(current, amount, sign) == sign * amount

\* newEncryptedRaw = currentEncryptedRaw +/- Math.floor(amount * MU_FACTOR)
NewTotal(current, amount, sign) == current + sign * amount

\* The body posted to /encrypt_balance and /decrypt_balance.
BalanceRequest(endpoint, current, amount, sign) ==
    [endpoint |-> endpoint, amount |-> amount,
     data |-> encryptClientBalance(NewTotal(current, amount, sign), WalletKey),
     id |-> 0]

\* The Encrypt Balance button is enabled (balance > 1 OCT) and the dialog
\* calls encryptBalance(address, amount, privateKey).
StartEncrypt ==
    /\ shownBalance > MU_FACTOR
    /\ \E num \in 1..MaxAmountNum, den \in AmountDens :
         Begin("encryptBalance", num, den, 0, "encView")
    /\ posted' = NoPost
    /\ reqs' = <<Request("/view_encrypted_balance")>>
    /\ items' = <<>>
    /\ multiHashes' = <<>>
    /\ UNCHANGED <<privNetVars, claimVars, walletVars, extraVars>>

\* decryptBalance(address, amount, privateKey)
StartDecrypt ==
    /\ \E num \in 1..MaxAmountNum, den \in AmountDens :
         Begin("decryptBalance", num, den, 0, "decView")
    /\ posted' = NoPost
    /\ reqs' = <<Request("/view_encrypted_balance")>>
    /\ items' = <<>>
    /\ multiHashes' = <<>>
    /\ UNCHANGED <<privNetVars, claimVars, walletVars, extraVars>>

InsufficientAlways(current, amount) == FALSE

\* currentEncryptedRaw < Math.floor(amount * MU_FACTOR)
Insufficient(current, amount) == current < amount

\* encryptBalance after fetchEncryptedBalance: without a snapshot it fails;
\* else the new total is encrypted and posted.
EncryptViewed ==
    /\ cpc = "encView"
    /\ \E kind \in ViewKinds :
         LET d == fetchEncryptedBalance(kind, publicRaw, encryptedRaw)
             a == ToMicro(call.num, call.den)
         IN /\ encData' = d
            /\ IF d.null
               THEN /\ outcome' = Returned(call.op, Failed("Cannot get balance"))
                    /\ reqs' = Answered(kind, Undefined)
                    /\ cpc' = "idle"
                    /\ UNCHANGED posted
               ELSE /\ posted' = BalanceRequest("/encrypt_balance",
                                                d.encrypted_raw, a, 1)
                    /\ reqs' = Append(Answered(kind, Undefined),
                                      Request("/encrypt_balance"))
                    /\ cpc' = "encPost"
                    /\ UNCHANGED outcome
    /\ UNCHANGED <<callsLeft, call, multiVars, privNetVars, claimVars, walletVars, extraVars>>

\* decryptBalance after fetchEncryptedBalance: it also refuses an amount
\* above the snapshot's encrypted balance.
DecryptViewed ==
    /\ cpc = "decView"
    /\ \E kind \in ViewKinds :
         LET d == fetchEncryptedBalance(kind, publicRaw, encryptedRaw)
             a == ToMicro(call.num, call.den)
         IN /\ encData' = d
            /\ IF d.null \/ Insufficient(d.encrypted_raw, a)
               THEN /\ outcome' = Returned(call.op,
                                    Failed(IF d.null THEN "Cannot get balance"
                                           ELSE "Insufficient encrypted balance"))
                    /\ reqs' = Answered(kind, Undefined)
                    /\ cpc' = "idle"
                    /\ UNCHANGED posted
               ELSE /\ posted' = BalanceRequest("/decrypt_balance",
                                                d.encrypted_raw, a, -1)
                    /\ reqs' = Append(Answered(kind, Undefined),
                                      Request("/decrypt_balance"))
                    /\ cpc' = "decPost"
                    /\ UNCHANGED outcome
    /\ UNCHANGED <<callsLeft, call, multiVars, privNetVars, claimVars, walletVars, extraVars>>

\* The node takes an encryption of at most the public balance and a
\* decryption of at most the encrypted balance; it keeps the posted
\* ciphertext as the encrypted balance and moves the amount.
NodeTakes(post) ==
    IF post.endpoint = "/encrypt_balance"
    THEN post.amount <= publicRaw
    ELSE post.amount <= encryptedRaw

\* The node applies a request it took.
NodeApplies(post) ==
    /\ encryptedRaw' = DecodeBalance(post.data, WalletKey)
    /\ publicRaw' = IF post.endpoint = "/encrypt_balance"
                    THEN publicRaw - post.amount
                    ELSE publicRaw + post.amount

\* The POST of encryptBalance or decryptBalance is answered (the tails of
\* the two functions are the same). A body the client cannot read comes
\* from a node that has applied the request.
BalancePosted ==
    /\ cpc \in {"encPost", "decPost"}
    /\ \E kind \in RpcKinds :
         /\ kind \in {"ok", "badBody"} => NodeTakes(posted)
         /\ reqs' = Answered(kind, IF kind = "nonOk" THEN NodeError ELSE Undefined)
         /\ outcome' = Returned(call.op, PostResult(kind))
         /\ IF kind \in {"ok", "badBody"}
            THEN NodeApplies(posted)
            ELSE UNCHANGED <<publicRaw, encryptedRaw>>
    /\ cpc' = "idle"
    /\ UNCHANGED <<callsLeft, call, posted, encData, multiVars, shownBalance, claimVars,
                   walletVars, extraVars>>

\* A second call of encryptBalance or decryptBalance for the same address,
\* from another tab or another await of the same page. It runs the same
\* code as the caller's call; rival holds its locals, and before the
\* encrypted balance at the start of the two calls.
RivalStarts ==
    /\ rival.pc = "none"
    /\ \E op \in {"encryptBalance", "decryptBalance"},
          num \in 1..MaxAmountNum, den \in AmountDens :
         rival' = [rival EXCEPT !.pc = "view", !.op = op,
                                !.amount = ToMicro(num, den)]
    /\ UNCHANGED <<walletVars, callVars, multiVars, privNetVars, claimVars,
                   sessionVars, pure, lateVars>>

\* The rival call after its fetchEncryptedBalance.
RivalViewed ==
    /\ rival.pc = "view"
    /\ \E kind \in ViewKinds :
         LET d == fetchEncryptedBalance(kind, publicRaw, encryptedRaw)
             refused == \/ d.null
                        \/ /\ rival.op = "decryptBalance"
                           /\ Insufficient(d.encrypted_raw, rival.amount)
         IN rival' =
              IF refused
              THEN [rival EXCEPT !.pc = "done", !.encData = d, !.success = FALSE]
              ELSE [rival EXCEPT
                      !.pc = "post", !.encData = d,
                      !.posted =
                         IF rival.op = "encryptBalance"
                         THEN BalanceRequest("/encrypt_balance",
                                             d.encrypted_raw, rival.amount, 1)
                         ELSE BalanceRequest("/decrypt_balance",
                                             d.encrypted_raw, rival.amount, -1)]
    /\ UNCHANGED <<walletVars, callVars, multiVars, privNetVars, claimVars,
                   sessionVars, pure, lateVars>>

\* The POST of the rival call is answered.
RivalPosted ==
    /\ rival.pc = "post"
    /\ \E kind \in RpcKinds :
         /\ kind \in {"ok", "badBody"} => NodeTakes(rival.posted)
         /\ rival' = [rival EXCEPT !.pc = "done",
                                   !.success = PostResult(kind).success]
         /\ IF kind \in {"ok", "badBody"}
            THEN NodeApplies(rival.posted)
            ELSE UNCHANGED <<publicRaw, encryptedRaw>>
    /\ UNCHANGED <<walletVars, callVars, multiVars, shownBalance, claimVars,
                   sessionVars, pure, lateVars>>

\* ------------------------------------------------------ private transfers
\* getAddressInfo: the body of /address/{address}, or null.
NoInfo == [null |-> TRUE, has_public_key |-> FALSE]
getAddressInfo(kind, has) ==
    IF kind = "ok" THEN [null |-> FALSE, has_public_key |-> has] ELSE NoInfo

\* getPublicKey: data.public_key of /public_key/{address}, or null.
NoKey == "null"
getPublicKey(kind, key) == IF kind = "ok" THEN key ELSE NoKey

RecipientKeyMissingOnly(info) == info.null

\* !addressInfo || !addressInfo.has_public_key
RecipientKeyMissing(info) == info.null \/ ~info.has_public_key

\* createPrivateTransfer(from, to, amount, fromPrivateKey)
StartTransfer ==
    /\ \E num \in 1..MaxAmountNum, den \in AmountDens :
         Begin("createPrivateTransfer", num, den, 0, "ptInfo")
    /\ posted' = NoPost
    /\ reqs' = <<Request("/address")>>
    /\ items' = <<>>
    /\ multiHashes' = <<>>
    /\ UNCHANGED <<privNetVars, claimVars, walletVars, extraVars>>

\* The address info is in: without a public key on record the call fails
\* here; else the key is requested.
AddressInfoAnswered ==
    /\ cpc = "ptInfo"
    /\ \E kind \in RpcKinds, has \in BOOLEAN :
         /\ kind # "ok" => ~has
         /\ IF RecipientKeyMissing(getAddressInfo(kind, has))
            THEN /\ outcome' = Returned(call.op,
                                        Failed("Recipient has no public key"))
                 /\ reqs' = Answered(kind, IF has THEN "has key" ELSE "no key")
                 /\ cpc' = "idle"
            ELSE /\ reqs' = Append(Answered(kind, IF has THEN "has key" ELSE "no key"),
                                   Request("/public_key"))
                 /\ cpc' = "ptKey"
                 /\ UNCHANGED outcome
    /\ UNCHANGED <<callsLeft, call, posted, encData, multiVars, privNetVars, claimVars,
                   walletVars, extraVars>>

\* The public key is in, or not; with it the transfer is posted.
PublicKeyAnswered ==
    /\ cpc = "ptKey"
    /\ \E kind \in RpcKinds, key \in {"pkB", NoKey} :
         /\ kind # "ok" => key = NoKey
         /\ IF getPublicKey(kind, key) = NoKey
            THEN /\ outcome' = Returned(call.op,
                                        Failed("Cannot get recipient public key"))
                 /\ reqs' = Answered(kind, Undefined)
                 /\ cpc' = "idle"
                 /\ UNCHANGED posted
            ELSE /\ posted' = [endpoint |-> "/private_transfer",
                               amount |-> ToMicro(call.num, call.den),
                               data |-> NoData, id |-> 0]
                 /\ reqs' = Append(Answered(kind, Undefined),
                                   Request("/private_transfer"))
                 /\ cpc' = "ptPost"
                 /\ UNCHANGED outcome
    /\ UNCHANGED <<callsLeft, call, encData, multiVars, privNetVars, claimVars, walletVars, extraVars>>

TransferPosted ==
    /\ cpc = "ptPost"
    /\ \E kind \in RpcKinds :
         /\ reqs' = Answered(kind, IF kind = "nonOk" THEN NodeError ELSE Undefined)
         /\ outcome' = Returned(call.op, PostResult(kind))
    /\ cpc' = "idle"
    /\ UNCHANGED <<callsLeft, call, posted, encData, multiVars, privNetVars, claimVars,
                   walletVars, extraVars>>

\* ---------------------------------------------------- claimable transfers
\* deriveSharedSecretForClaim(privateKey, ephemeralKey): throws on a key
\* that is no curve point.
deriveSharedSecretForClaim(privateKey, ephemeralKey) ==
    IF ephemeralKey = "bad"
    THEN [threw |-> TRUE, secret |-> <<"none", "none">>]
    ELSE [threw |-> FALSE, secret |-> <<privateKey, ephemeralKey>>]

\* decryptPrivateAmount(encryptedData, sharedSecret): the amount, or null
\* when the data does not open under the secret.
decryptPrivateAmount(encryptedData, sharedSecret) ==
    IF encryptedData.key = sharedSecret
    THEN [null |-> FALSE, value |-> encryptedData.plain]
    ELSE [null |-> TRUE, value |-> 0]

\* What may be wrong with a pending transfer's payload.
Seals == {"good", "noData", "badKey", "forged"}

\* The pending transfer i of the wallet as the node lists it.
PendingTransfer(i, seal) ==
    [id |-> i, seal |-> seal, amount |-> i * (MU_FACTOR \div 2),
     ephemeral_key |-> CASE seal = "badKey" -> "bad"
                         [] seal = "noData" -> ""
                         [] OTHER -> "eph",
     encrypted_data |-> CASE seal = "noData" -> NoData
                          [] seal = "forged" ->
                               [key |-> <<"skX", "eph">>,
                                plain |-> i * (MU_FACTOR \div 2)]
                          [] OTHER ->
                               [key |-> <<WalletKey, "eph">>,
                                plain |-> i * (MU_FACTOR \div 2)]]

\* decryptedAmount: null, or amount / 1_000_000 (kept as a fraction).
NullAmount == [num |-> 0, den |-> 0]

\* The body of fetchTransfers' map callback: the decrypted amount of one
\* transfer; every failure inside leaves null.
DecryptedAmount(transfer) ==
    IF transfer.encrypted_data # NoData /\ transfer.ephemeral_key # ""
    THEN LET s == deriveSharedSecretForClaim(WalletKey, transfer.ephemeral_key)
             amount == decryptPrivateAmount(transfer.encrypted_data, s.secret)
         IN IF s.threw \/ amount.null
            THEN NullAmount
            ELSE [num |-> amount.value, den |-> MU_FACTOR]
    ELSE NullAmount

ListEntriesFailFast(pending) ==
    IF \E k \in DOMAIN pending : DecryptedAmount(pending[k]) = NullAmount
    THEN <<>>
    ELSE [k \in DOMAIN pending |->
            [id |-> pending[k].id,
             decryptedAmount |-> DecryptedAmount(pending[k])]]

\* transfersWithAmounts: one entry per pending transfer, in order.
ListEntries(pending) ==
    [k \in DOMAIN pending |->
       [id |-> pending[k].id, decryptedAmount |-> DecryptedAmount(pending[k])]]

\* getPendingPrivateTransfers: data.pending_transfers, or [] on any failure.
getPendingPrivateTransfers(kind, pending) ==
    IF kind = "ok" THEN pending ELSE <<>>

\* ClaimTransfers.fetchTransfers()
StartList ==
    /\ Begin("fetchTransfers", 1, 1, 0, "list")
    /\ posted' = NoPost
    /\ reqs' = <<Request("/pending_private_transfers")>>
    /\ items' = <<>>
    /\ multiHashes' = <<>>
    /\ UNCHANGED <<privNetVars, claimVars, walletVars, extraVars>>

\* The list is in (also the refresh that follows a successful claim).
ListAnswered ==
    /\ cpc = "list"
    /\ \E kind \in RpcKinds :
         /\ reqs' = Answered(kind, Undefined)
         /\ transfers' = ListEntries(
                           getPendingPrivateTransfers(kind, pendingTransfers))
    /\ outcome' = IF call.op = "fetchTransfers"
                  THEN Returned(call.op, Succeeded(Undefined)) ELSE outcome
    /\ cpc' = "idle"
    /\ UNCHANGED <<callsLeft, call, posted, encData, multiVars, privNetVars,
                   pendingTransfers, credits, walletVars, extraVars>>

\* The node's error for a transfer that is not pending any more.
AlreadyClaimed == "AlreadyClaimed"

ClaimResultOkOnAnyResponse(kind, text, amount) ==
    CASE kind \in {"ok", "nonOk"} ->
           [success |-> TRUE, amount |-> amount, error |-> Undefined]
      [] kind = "badBody" -> [success |-> FALSE, amount |-> 0, error |-> JsonError]
      [] OTHER -> [success |-> FALSE, amount |-> 0, error |-> FetchError]

\* claimPrivateTransfer on the response of /claim_private_transfer.
claimPrivateTransfer(kind, text, amount) ==
    CASE kind = "ok" -> [success |-> TRUE, amount |-> amount, error |-> Undefined]
      [] kind = "nonOk" -> [success |-> FALSE, amount |-> 0, error |-> text]
      [] kind = "badBody" -> [success |-> FALSE, amount |-> 0, error |-> JsonError]
      [] OTHER -> [success |-> FALSE, amount |-> 0, error |-> FetchError]

\* ClaimTransfers.handleClaim(transferId), from the Claim button of a
\* listed transfer.
StartClaim ==
    /\ \E k \in DOMAIN transfers :
         /\ Begin("claimPrivateTransfer", 1, 1, transfers[k].id, "claim")
         /\ posted' = [endpoint |-> "/claim_private_transfer", amount |-> 0,
                       data |-> NoData, id |-> transfers[k].id]
    /\ reqs' = <<Request("/claim_private_transfer")>>
    /\ items' = <<>>
    /\ multiHashes' = <<>>
    /\ UNCHANGED <<privNetVars, claimVars, walletVars, extraVars>>

IsPending(id) == \E k \in DOMAIN pendingTransfers : pendingTransfers[k].id = id

\* The node claims a pending transfer once: it leaves the pending list and
\* is credited; a transfer that is not pending is refused.
NodeClaims(id) ==
    /\ pendingTransfers' = SelectSeq(pendingTransfers, LAMBDA p : p.id # id)
    /\ credits' = [credits EXCEPT ![id] = @ + 1]

\* The claim is answered. A successful claim refreshes the list before the
\* handler ends.
ClaimAnswered ==
    /\ cpc = "claim"
    /\ \E kind \in RpcKinds :
         LET text == IF kind # "nonOk" THEN Undefined
                     ELSE IF IsPending(call.id) THEN NodeError ELSE AlreadyClaimed
             amount == call.id * (MU_FACTOR \div 2)
             r == claimPrivateTransfer(kind, text, amount)
         IN /\ kind \in {"ok", "badBody"} => IsPending(call.id)
            /\ IF kind \in {"ok", "badBody"}
               THEN NodeClaims(call.id)
               ELSE UNCHANGED <<pendingTransfers, credits>>
            /\ outcome' = [op |-> call.op, how |-> "returned",
                           success |-> r.success, hash |-> Undefined,
                           error |-> r.error, amount |-> r.amount]
            /\ IF r.success
               THEN /\ reqs' = Append(Answered(kind, text),
                                      Request("/pending_private_transfers"))
                    /\ cpc' = "list"
               ELSE /\ reqs' = Answered(kind, text)
                    /\ cpc' = "idle"
    /\ UNCHANGED <<callsLeft, call, posted, encData, multiVars, privNetVars, transfers,
                   walletVars, extraVars>>

\* ---------------------------------------------------------- the claim view
\* Clicks on Claim buttons in one stay on the claim view.
MaxClaimClicks == 3

\* The fetchTransfers of the mount effect, under way.
MountRun == [id |-> 0, pc |-> "list"]

\* disabled={claimingId === transfer.id}
ClaimDisabled(id) == claimingId = id

\* A click on the Claim button of a listed transfer: handleClaim sets
\* claimingId and sends the claim.
ClickClaim ==
    /\ Len(claimRuns) <= MaxClaimClicks
    /\ \E k \in DOMAIN transfers :
         /\ ~ClaimDisabled(transfers[k].id)
         /\ claimingId' = transfers[k].id
         /\ claimRuns' = Append(claimRuns, [id |-> transfers[k].id, pc |-> "claim"])
    /\ UNCHANGED <<walletVars, callVars, multiVars, privNetVars, claimVars,
                   sessionVars, rival, pure, domainRows, regs>>

\* The claim of run r is answered: on success handleClaim goes on to
\* fetchTransfers; otherwise it toasts and its finally block clears
\* claimingId.
ClaimRunAnswered(r) ==
    /\ claimRuns[r].pc = "claim"
    /\ \E kind \in RpcKinds :
         LET id == claimRuns[r].id
             text == IF kind # "nonOk" THEN Undefined
                     ELSE IF IsPending(id) THEN NodeError ELSE AlreadyClaimed
             result == claimPrivateTransfer(kind, text, id * (MU_FACTOR \div 2))
         IN /\ kind \in {"ok", "badBody"} => IsPending(id)
            /\ IF kind \in {"ok", "badBody"}
               THEN NodeClaims(id)
               ELSE UNCHANGED <<pendingTransfers, credits>>
            /\ IF result.success
               THEN /\ claimRuns' = [claimRuns EXCEPT ![r].pc = "list"]
                    /\ UNCHANGED claimingId
               ELSE /\ claimRuns' = [claimRuns EXCEPT ![r].pc = "done"]
                    /\ claimingId' = NoClaim
    /\ UNCHANGED <<walletVars, callVars, multiVars, privNetVars, transfers,
                   sessionVars, rival, pure, domainRows, regs>>

\* The fetchTransfers of run r is answered: the list is replaced; a run of
\* handleClaim then ends through its finally block.
ClaimRunListed(r) ==
    /\ claimRuns[r].pc = "list"
    /\ \E kind \in RpcKinds :
         transfers' = ListEntries(
                        getPendingPrivateTransfers(kind, pendingTransfers))
    /\ claimRuns' = [claimRuns EXCEPT ![r].pc = "done"]
    /\ claimingId' = IF claimRuns[r] = MountRun THEN claimingId ELSE NoClaim
    /\ UNCHANGED <<walletVars, callVars, multiVars, privNetVars,
                   pendingTransfers, credits,
                   sessionVars, rival, pure, domainRows, regs>>

\* ------------------------------------------------------------ the session
\* Entries the password setup may add to encryptedWallets.
MaxStoredWallets == 2

Passwords == {"pw1", "pw2"}
\* utils/password: hashPassword, verifyPassword, encryptWalletData and
\* decryptWalletData.
hashPassword(password) ==
    [hashedPassword |-> IF password = "pw1" THEN "hash1" ELSE "hash2",
     salt |-> "salt"]
verifyPasswordAny(password, hashedPassword, salt) == TRUE
verifyPassword(password, hashedPassword, salt) ==
    hashPassword(password).hashedPassword = hashedPassword
encryptWalletData(walletData, password) ==
    [password |-> password, walletData |-> walletData]
\* decryptWalletData throws under another password.
Decrypts(encryptedData, password) == encryptedData.password = password

nonSession == <<walletVars, callVars, multiVars, privNetVars, claimVars,
                rival, pure, lateVars>>

HasNever(ws, address) == FALSE

\* wallets.find(w => w.address === address)
Has(ws, address) == \E k \in DOMAIN ws : ws[k] = address

\* The active wallet the mount effect and handleUnlock pick from a list:
\* the one activeWalletId names, else the first.
ActiveOf(ws, activeWalletId) ==
    IF Has(ws, activeWalletId) THEN activeWalletId ELSE ws[1]

addWalletStale(w, st) ==
    /\ wallet' = w
    /\ IF Has(wallets, w)
       THEN /\ UNCHANGED wallets
            /\ storage' = st
       ELSE /\ wallets' = Append(wallets, w)
            /\ storage' = [st EXCEPT !.wallets = Stored(Append(wallets, w)),
                                     !.activeWalletId = w]

\* addWallet(newWallet) on storage st: a known address only becomes the
\* active wallet; a new wallet is appended and the list is stored, private
\* keys included.
addWallet(w, st) ==
    /\ wallet' = w
    /\ IF Has(wallets, w)
       THEN /\ UNCHANGED wallets
            /\ storage' = [st EXCEPT !.activeWalletId = w]
       ELSE /\ wallets' = Append(wallets, w)
            /\ storage' = [st EXCEPT !.wallets = Stored(Append(wallets, w)),
                                     !.activeWalletId = w]

\* A wallet is generated or imported and handed to addWallet.
AddWallet ==
    /\ ~isLocked
    /\ \E w \in WalletIds : addWallet(w, storage)
    /\ UNCHANGED <<isLocked, nonSession>>

\* PasswordSetup.handleCreatePassword for a new wallet: the password hash
\* and the wallet encrypted under the password go to storage, then
\* onPasswordSet(wallet) hands the wallet to addWallet.
CreatePassword ==
    /\ ~isLocked
    /\ Len(storage.encryptedWallets.items) < MaxStoredWallets
    /\ \E w \in WalletIds, password \in Passwords :
         LET h == hashPassword(password)
             entry == [address |-> w,
                       encryptedData |-> encryptWalletData(w, password)]
             st == [storage EXCEPT
                      !.walletPasswordHash = h.hashedPassword,
                      !.walletPasswordSalt = h.salt,
                      !.isWalletLocked = "false",
                      !.encryptedWallets =
                          Stored(Append(storage.encryptedWallets.items, entry))]
         IN addWallet(w, st)
    /\ UNCHANGED <<isLocked, nonSession>>

\* switchWallet(selectedWallet), from the dashboard.
SwitchWallet ==
    /\ ~isLocked
    /\ wallet # NoWallet
    /\ \E w \in WalletIds :
         /\ Has(wallets, w)
         /\ wallet' = w
         /\ storage' = [storage EXCEPT !.activeWalletId = w]
    /\ UNCHANGED <<wallets, isLocked, nonSession>>

\* removeWallet(walletToRemove), from the dashboard.
RemoveWallet ==
    /\ ~isLocked
    /\ wallet # NoWallet
    /\ \E w \in WalletIds :
         /\ Has(wallets, w)
         /\ LET updatedWallets == SelectSeq(wallets, LAMBDA x : x # w)
                st == [storage EXCEPT !.wallets = Stored(updatedWallets)]
            IN /\ wallets' = updatedWallets
               /\ IF wallet = w
                  THEN IF Len(updatedWallets) > 0
                       THEN /\ wallet' = updatedWallets[1]
                            /\ storage' = [st EXCEPT !.activeWalletId =
                                                        updatedWallets[1]]
                       ELSE /\ wallet' = NoWallet
                            /\ storage' = [st EXCEPT !.activeWalletId = Absent]
                  ELSE /\ UNCHANGED wallet
                       /\ storage' = st
    /\ UNCHANGED <<isLocked, nonSession>>

DisconnectWalletKeepsList ==
    /\ ~isLocked
    /\ wallet # NoWallet
    /\ wallet' = NoWallet
    /\ wallets' = <<>>
    /\ storage' = [storage EXCEPT !.activeWalletId = Absent,
                                  !.theme = "dark",
                                  !.isWalletLocked = "true"]
    /\ isLocked' = TRUE
    /\ UNCHANGED nonSession

\* disconnectWallet(), from the dashboard: the session ends.
DisconnectWallet ==
    /\ ~isLocked
    /\ wallet # NoWallet
    /\ wallet' = NoWallet
    /\ wallets' = <<>>
    /\ storage' = [storage EXCEPT !.wallets = NoList,
                                  !.activeWalletId = Absent,
                                  !.theme = "dark",
                                  !.isWalletLocked = "true"]
    /\ isLocked' = TRUE
    /\ UNCHANGED nonSession

\* UnlockWallet.handleUnlock with the right password, then App.handleUnlock:
\* the wallets that decrypt under the password are stored in the clear
\* and loaded.
Unlock ==
    /\ isLocked
    /\ storage.walletPasswordHash # Absent
    /\ storage.walletPasswordSalt # Absent
    /\ \E password \in Passwords :
         /\ verifyPassword(password, storage.walletPasswordHash,
                           storage.walletPasswordSalt)
         /\ LET opened == SelectSeq(storage.encryptedWallets.items,
                            LAMBDA e : Decrypts(e.encryptedData, password))
                decryptedWallets ==
                    [k \in DOMAIN opened |-> opened[k].encryptedData.walletData]
            IN /\ storage' = [storage EXCEPT !.isWalletLocked = "false",
                                             !.wallets = Stored(decryptedWallets)]
               /\ wallets' = decryptedWallets
               /\ wallet' = IF Len(decryptedWallets) > 0
                            THEN ActiveOf(decryptedWallets, storage.activeWalletId)
                            ELSE wallet
    /\ isLocked' = FALSE
    /\ UNCHANGED nonSession

\* The page is loaded again: the component state starts empty and the mount
\* effect reads storage.
Reload ==
    /\ IF storage.walletPasswordHash # Absent /\ storage.isWalletLocked # "false"
       THEN /\ isLocked' = TRUE
            /\ wallet' = NoWallet
            /\ wallets' = <<>>
       ELSE /\ isLocked' = FALSE
            /\ wallets' = storage.wallets.items
            /\ wallet' = IF Len(storage.wallets.items) > 0
                         THEN ActiveOf(storage.wallets.items, storage.activeWalletId)
                         ELSE NoWallet
    /\ UNCHANGED <<storage, nonSession>>

\* ------------------------------------------------ the transaction builder
\* Calls of the synchronous functions one behaviour records.
MaxPureCalls == 2

\* amount < 1000: where the higher fee tier starts (native units).
TierLimit == 1000

\* A member of a JavaScript object: a string, a number, or the decimal
\* string of an integer (amountMu.toString()).
Str(key, v) == [key |-> key, type |-> "string", str |-> v, num |-> 0]
Num(key, v) == [key |-> key, type |-> "number", str |-> "", num |-> v]
Dec(key, v) == [key |-> key, type |-> "string", str |-> "decimal", num |-> v]

\* The 32-byte seed of the wallet and the public key nacl derives from it.
PublicOf(seed) == IF seed = WalletKey THEN "pkA" ELSE "pkC"
\* Buffer.from('', 'hex'): no bytes, so the second half of the secret key
\* stays zero.
ZeroKey == "zero"
\* Buffer.from(publicKeyHex, 'hex')
HexBytes(publicKeyHex) == IF publicKeyHex = "" THEN ZeroKey ELSE publicKeyHex
\* Buffer.from(publicKeyBuffer).toString('base64')
PublicKeyBase64(publicKeyBuffer) ==
    IF publicKeyBuffer = ZeroKey THEN "" ELSE publicKeyBuffer

\* nacl.sign.detached(message, secretKey): an Ed25519 signature is a
\* function of the message, the seed half and the public-key half of the
\* secret key.
Sign(message, secretKey) ==
    [message |-> message, seed |-> secretKey.seed, pub |-> secretKey.pub]
\* nacl.sign.detached.verify(message, signature, publicKey): the signature
\* was made over this message by the seed of this public key, with this
\* public key in the secret key.
Verify(message, signature, publicKey) ==
    /\ signature.message = message
    /\ signature.pub = publicKey
    /\ PublicOf(signature.seed) = publicKey

\* amount < 1000 for the amount num/den.
BelowTier(num, den) == num < TierLimit * den

OuTagFlat(num, den) == "1"

\* const ou = amount < 1000 ? "1" : "3"
OuTag(num, den) == IF BelowTier(num, den) THEN "1" ELSE "3"

SigningObjectWithMessage(transaction) == transaction

\* signingObject: the six members in the order they are assigned; the
\* message is left out.
SigningObject(transaction) == SubSeq(transaction, 1, 6)

\* createTransaction(senderAddress, recipientAddress, amount, nonce,
\* privateKeyBase64, publicKeyHex, message) at the clock reading now (with
\* its random part): the members of the returned object in insertion
\* order, and what was signed (createTransaction above keeps the nonce
\* only).
createTransactionSigned(senderAddress, recipientAddress, num, den, txNonce, privateKeyBase64, publicKeyHex, message, now) ==
    LET amountMu == ToMicro(num, den)
        base == <<Str("from", senderAddress), Str("to_", recipientAddress),
                  Dec("amount", amountMu), Num("nonce", txNonce),
                  Str("ou", OuTag(num, den)), Num("timestamp", now)>>
        transaction == IF message # "" THEN Append(base, Str("message", message))
                       ELSE base
        signingData == SigningObject(transaction)
        secretKey == [seed |-> privateKeyBase64, pub |-> HexBytes(publicKeyHex)]
    IN [members |-> transaction,
        signingData |-> signingData,
        signature |-> Sign(signingData, secretKey),
        public_key |-> PublicKeyBase64(HexBytes(publicKeyHex))]

\* Amounts on both sides of the tier limit, whole and fractional (num/den).
TxAmounts ==
    {[num |-> TierLimit - 1, den |-> 1], [num |-> TierLimit, den |-> 1],
     [num |-> 3 * TierLimit - 1, den |-> 3], [num |-> 3 * TierLimit + 1, den |-> 3]}
TxMessages == {"", "hello"}
Clock == {1, 2}

\* A caller builds a transaction: the multi-sends pass
\* wallet.publicKey || '', sendMultipleTransactions passes '' and
\* registerDomain the key derived from the private key.
BuildTransaction ==
    /\ Len(pure) < MaxPureCalls
    /\ \E a \in TxAmounts, message \in TxMessages, now \in Clock,
          publicKeyHex \in {PublicOf(WalletKey), ""} :
         pure' = Append(pure,
                   [fn |-> "createTransaction",
                    num |-> a.num, den |-> a.den, message |-> message,
                    now |-> now, publicKeyHex |-> publicKeyHex,
                    site |-> "api",
                    result |-> createTransactionSigned(Wallet, Stranger, a.num, a.den,
                                                 1, WalletKey, publicKeyHex,
                                                 message, now)])
    /\ UNCHANGED <<walletVars, callVars, multiVars, privNetVars, claimVars,
                   sessionVars, rival, lateVars>>

calculateFeeFlat(num, den) == [num |-> 1, den |-> 1000]

\* calculateFee(amount): amount < 1000 ? 0.001 : 0.003 (MultiSend and
\* FileMultiSend have the same function).
calculateFee(num, den) ==
    IF BelowTier(num, den) THEN [num |-> 1, den |-> 1000]
    ELSE [num |-> 3, den |-> 1000]

\* A multi-send computes the fee of a recipient's amount.
CalculateFee ==
    /\ Len(pure) < MaxPureCalls
    /\ \E a \in TxAmounts, site \in {"MultiSend", "FileMultiSend"} :
         pure' = Append(pure,
                   [fn |-> "calculateFee", num |-> a.num, den |-> a.den,
                    message |-> "", now |-> 0, publicKeyHex |-> "",
                    site |-> site,
                    result |-> calculateFee(a.num, a.den)])
    /\ UNCHANGED <<walletVars, callVars, multiVars, privNetVars, claimVars,
                   sessionVars, rival, lateVars>>

\* ------------------------------------------------- formats: domains, keys
\* Longest name part (before the suffix) among the short domain inputs.
MaxNameLen == 4
\* name.length < 3 || name.length > 32
MinDomainName == 3
MaxDomainName == 32

\* A string is the sequence of its characters. One character stands for
\* each class the validators tell apart: a lower-case letter, an upper-case
\* letter, a digit, the hyphen, another character, the dot.
NameChars == {"a", "Z", "7", "-", "_", "."}
Letters ==
    {"a", "b", "c", "d", "e", "f", "g", "h", "i", "j", "k", "l", "m", "n",
     "o", "p", "q", "r", "s", "t", "u", "v", "w", "x", "y", "z",
     "A", "B", "C", "D", "E", "F", "G", "H", "I", "J", "K", "L", "M", "N",
     "O", "P", "Q", "R", "S", "T", "U", "V", "W", "X", "Y", "Z"}
Digits == {"0", "1", "2", "3", "4", "5", "6", "7", "8", "9"}
\* [a-zA-Z0-9]
AlNum == Letters \cup Digits
OctSuffix == <<".", "o", "c", "t">>

\* domain.endsWith('.oct')
EndsWithOct(domain) ==
    /\ Len(domain) >= Len(OctSuffix)
    /\ SubSeq(domain, Len(domain) - Len(OctSuffix) + 1, Len(domain)) = OctSuffix

\* domain.slice(0, -4)
SliceOffSuffix(domain) == SubSeq(domain, 1, Len(domain) - 4)

DomainRegexLoose(name) ==
    /\ Len(name) >= 1
    /\ \A k \in 1..Len(name) : name[k] \in AlNum \cup {"-"}

\* /^[a-zA-Z0-9]([a-zA-Z0-9-]*[a-zA-Z0-9])?$/.test(name)
DomainRegexTest(name) ==
    /\ Len(name) >= 1
    /\ name[1] \in AlNum
    /\ Len(name) > 1 =>
         /\ \A k \in 2..(Len(name) - 1) : name[k] \in AlNum \cup {"-"}
         /\ name[Len(name)] \in AlNum

\* isValidDomainFormat(domain) of the client.
isValidDomainFormat(domain) ==
    IF ~EndsWithOct(domain) THEN FALSE
    ELSE LET name == SliceOffSuffix(domain) IN
         IF Len(name) < MinDomainName \/ Len(name) > MaxDomainName THEN FALSE
         ELSE DomainRegexTest(name)

\* validateDomain(domain) of the backend, for a string argument: an empty
\* string is refused first.
validateDomain(domain) ==
    IF domain = <<>> THEN FALSE
    ELSE IF ~EndsWithOct(domain) THEN FALSE
    ELSE LET name == SliceOffSuffix(domain) IN
         IF Len(name) < MinDomainName \/ Len(name) > MaxDomainName THEN FALSE
         ELSE DomainRegexTest(name)

\* Names of up to MaxNameLen characters, and names around the longest
\* length allowed that differ in their first and last character.
ShortNames == UNION {[1..n -> NameChars] : n \in 0..MaxNameLen}
LongNames ==
    {[k \in 1..n |-> IF k = 1 THEN first ELSE IF k = n THEN last ELSE "a"] :
       n \in {MaxDomainName - 1, MaxDomainName, MaxDomainName + 1},
       first \in {"a", "-"}, last \in {"7", "-"}}
DomainInputs ==
    {name \o suffix : name \in ShortNames \cup LongNames,
                      suffix \in {OctSuffix, <<".", "o", "c">>, <<>>}}

\* A private key the user types: the Base64 or the hex text of the bytes
\* of a key, the hex text with or without the 0x prefix.
KeyTexts ==
    {[key |-> key, bytes |-> n, alphabet |-> alphabet, prefix |-> prefix] :
       key \in {WalletKey, "skC"}, n \in {16, 32},
       alphabet \in {"base64", "hex"}, prefix \in {"", "0x"}}
        \ {t \in [key : {WalletKey, "skC"}, bytes : {16, 32},
                  alphabet : {"base64"}, prefix : {"0x"}] : TRUE}

\* The characters of the text after the prefix: two per byte in hex, four
\* per three bytes (padded) in Base64.
TextLength(text) ==
    IF text.alphabet = "hex" THEN 2 * text.bytes
    ELSE 4 * ((text.bytes + 2) \div 3)

\* Buffer.from(cleanKey, 'base64'): the bytes of the key for its Base64
\* text; hex digits are Base64 characters too, so a hex text decodes to
\* three bytes for every four digits, which are not the key.
FromBase64(text) ==
    IF text.alphabet = "base64"
    THEN [key |-> text.key, length |-> text.bytes]
    ELSE [key |-> "other bytes", length |-> (3 * TextLength(text)) \div 4]

\* Buffer.from(cleanKey, 'hex')
FromHex(text) == [key |-> text.key, length |-> TextLength(text) \div 2]

ImportFailed(error) == [threw |-> TRUE, error |-> error, address |-> "",
                        privateKey |-> "", publicKey |-> ""]

\* cleanKey.startsWith('0x')
IsHexText(text) == text.prefix = "0x"

\* importWalletFromPrivateKey(privateKey)
importWalletFromPrivateKey(text) ==
    LET made(keyBuffer) ==
            [threw |-> FALSE, error |-> "",
             address |-> <<"oct", PublicOf(keyBuffer.key)>>,
             privateKey |-> keyBuffer.key,
             publicKey |-> PublicOf(keyBuffer.key)]
    IN IF IsHexText(text)
       THEN IF TextLength(text) # 64
            THEN ImportFailed("Invalid private key length")
            ELSE made(FromHex(text))
       ELSE IF FromBase64(text).length # 32
            THEN ImportFailed("Invalid private key format")
            ELSE made(FromBase64(text))

NoInput == [fn |-> "none"]
\* The input the validators and the import are given.
FormatInput == pure[1]
Called(fn) == \E k \in DOMAIN pure : pure[k].fn = fn

\* RegisterDomain and registerDomain validate the domain typed.
ClientValidates ==
    /\ pure # <<>>
    /\ FormatInput.fn = "domain"
    /\ ~Called("isValidDomainFormat")
    /\ pure' = Append(pure, [fn |-> "isValidDomainFormat",
                             result |-> isValidDomainFormat(FormatInput.arg)])
    /\ UNCHANGED <<walletVars, callVars, multiVars, privNetVars, claimVars,
                   sessionVars, rival, lateVars>>

\* The backend validates the domain of a request.
BackendValidates ==
    /\ pure # <<>>
    /\ FormatInput.fn = "domain"
    /\ ~Called("validateDomain")
    /\ pure' = Append(pure, [fn |-> "validateDomain",
                             result |-> validateDomain(FormatInput.arg)])
    /\ UNCHANGED <<walletVars, callVars, multiVars, privNetVars, claimVars,
                   sessionVars, rival, lateVars>>

\* ImportWallet hands the private key typed to importWalletFromPrivateKey.
ImportKey ==
    /\ pure # <<>>
    /\ FormatInput.fn = "key"
    /\ ~Called("importWalletFromPrivateKey")
    /\ pure' = Append(pure, [fn |-> "importWalletFromPrivateKey",
                             result |-> importWalletFromPrivateKey(FormatInput.arg)])
    /\ UNCHANGED <<walletVars, callVars, multiVars, privNetVars, claimVars,
                   sessionVars, rival, lateVars>>

\* ------------------------------------------------------ the lock screen
\* UnlockWallet.handleUnlock with whatever was typed, then App.handleUnlock
\* if it is called. Without a password typed, without a stored hash or salt
\* and on a password that does not verify, the handler ends with a toast.
\* The call is recorded with what it handed to onUnlock.
UnlockAttempt ==
    /\ isLocked
    /\ Len(pure) < MaxPureCalls
    /\ \E password \in Passwords \cup {""} :
         LET refused ==
                 \/ password = ""
                 \/ storage.walletPasswordHash = Absent
                 \/ storage.walletPasswordSalt = Absent
                 \/ ~verifyPassword(password, storage.walletPasswordHash,
                                    storage.walletPasswordSalt)
             opened == SelectSeq(storage.encryptedWallets.items,
                         LAMBDA e : Decrypts(e.encryptedData, password))
             decryptedWallets ==
                 [k \in DOMAIN opened |-> opened[k].encryptedData.walletData]
         IN IF refused
            THEN /\ pure' = Append(pure, [fn |-> "handleUnlock",
                                          password |-> password,
                                          onUnlock |-> FALSE,
                                          unlockedWallets |-> <<>>])
                 /\ UNCHANGED sessionVars
            ELSE /\ pure' = Append(pure, [fn |-> "handleUnlock",
                                          password |-> password,
                                          onUnlock |-> TRUE,
                                          unlockedWallets |-> decryptedWallets])
                 /\ storage' = [storage EXCEPT
                                  !.isWalletLocked = "false",
                                  !.wallets = Stored(decryptedWallets)]
                 /\ wallets' = decryptedWallets
                 /\ isLocked' = FALSE
                 /\ wallet' = IF Len(decryptedWallets) > 0
                              THEN ActiveOf(decryptedWallets,
                                            storage.activeWalletId)
                              ELSE wallet
    /\ UNCHANGED <<walletVars, callVars, multiVars, privNetVars, claimVars,
                   rival, lateVars>>

\* --------------------------------------------- backend: POST /register
\* Requests the backend serves in one behaviour.
MaxRegs == 2

UpperCase == <<"A", "B", "C", "D", "E", "F", "G", "H", "I", "J", "K", "L", "M",
               "N", "O", "P", "Q", "R", "S", "T", "U", "V", "W", "X", "Y", "Z">>
LowerCase == <<"a", "b", "c", "d", "e", "f", "g", "h", "i", "j", "k", "l", "m",
               "n", "o", "p", "q", "r", "s", "t", "u", "v", "w", "x", "y", "z">>
\* domain.toLowerCase()
ToLowerCase(domain) ==
    [k \in DOMAIN domain |->
       IF \E u \in DOMAIN UpperCase : UpperCase[u] = domain[k]
       THEN LowerCase[CHOOSE u \in DOMAIN UpperCase : UpperCase[u] = domain[k]]
       ELSE domain[k]]

\* The domain of a request body: "abc.oct", "Abc.oct", "ab.oct", or none.
BodyDomains ==
    {<<"a", "b", "c">> \o OctSuffix, <<"A", "b", "c">> \o OctSuffix,
     <<"a", "b">> \o OctSuffix, <<>>}

\* The address of a request body: who it belongs to, its prefix, the number
\* of characters after the prefix and whether all are Base58 characters.
OctAddress(owner) == [owner |-> owner, prefix |-> "oct", chars |-> 44,
                      base58 |-> TRUE]
NoAddress == [owner |-> "", prefix |-> "", chars |-> 0, base58 |-> TRUE]
BodyAddresses ==
    {OctAddress("A"), OctAddress("B"),
     [OctAddress("A") EXCEPT !.chars = 43], NoAddress}

\* /^oct[1-9A-HJ-NP-Za-km-z]{44}$/.test(address), after the check for a
\* non-empty string.
isValidOctAddress(address) ==
    /\ address # NoAddress
    /\ address.prefix = "oct"
    /\ address.chars = 44
    /\ address.base58

\* What fetchTransactionDetails gives verifyTransaction: null, the details
\* of the registration transaction, other details, or an error.
TxLookups == {"null", "match", "mismatch", "error"}

\* verifyTransaction(txHash, fromAddress, domain): the master address is
\* always set; an error inside is caught and gives false.
verifyTransaction(lookup) == IF lookup = "match" THEN "true" ELSE "false"

\* What the route's await of verifyTransaction can end in: its value, or a
\* rejection, which the route catches as well.
VerifyOutcomes == {verifyTransaction(lookup) : lookup \in TxLookups} \cup {"throws"}

ContinuesOnlyIfValid(isValidTx) == isValidTx = "true"

\* "Continue anyway - verification can be done later", on false and in the
\* catch block.
ContinuesAfterVerify(isValidTx) == TRUE

\* SELECT * FROM domains WHERE domain = ? AND status = "active": the row,
\* or none (every row is active: no route changes the status).
RowsOf(rows, domain) == SelectSeq(rows, LAMBDA row : row.domain = domain)

UniqueNotEnforced(rows, domain) == FALSE

\* domain TEXT UNIQUE NOT NULL: an INSERT of a domain that has a row fails.
UniqueViolated(rows, domain) == RowsOf(rows, domain) # <<>>

Responded(req, status) == [req EXCEPT !.pc = "done", !.status = status]

\* A request arrives and is validated: missing fields, a malformed domain
\* and a malformed address are answered 400; otherwise the SELECT is sent.
RegisterArrives ==
    /\ Len(regs) < MaxRegs
    /\ \E domain \in BodyDomains, address \in BodyAddresses, txHash \in {"", "h1"} :
         LET req == [domain |-> domain, address |-> address, pc |-> "select",
                     status |-> 0, isValidTx |-> "none", id |-> 0,
                     dbError |-> "none"]
             invalid == \/ domain = <<>> \/ address = NoAddress \/ txHash = ""
                        \/ ~validateDomain(domain)
                        \/ ~isValidOctAddress(address)
         IN regs' = Append(regs, IF invalid THEN Responded(req, 400) ELSE req)
    /\ UNCHANGED <<walletVars, callVars, multiVars, privNetVars, claimVars,
                   sessionVars, rival, pure, claimingId, claimRuns, domainRows>>

\* The SELECT of request r returns: an error is answered 500, a row 409.
RegisterSelected(r) ==
    /\ regs[r].pc = "select"
    /\ \E dbOk \in BOOLEAN :
         regs' = [regs EXCEPT ![r] =
            IF ~dbOk THEN [Responded(@, 500) EXCEPT !.dbError = "select"]
            ELSE IF RowsOf(domainRows, ToLowerCase(@.domain)) # <<>>
                 THEN Responded(@, 409)
                 ELSE [@ EXCEPT !.pc = "verify"]]
    /\ UNCHANGED <<walletVars, callVars, multiVars, privNetVars, claimVars,
                   sessionVars, rival, pure, claimingId, claimRuns, domainRows>>

\* verifyTransaction of request r has settled.
RegisterVerified(r) ==
    /\ regs[r].pc = "verify"
    /\ \E isValidTx \in VerifyOutcomes :
         regs' = [regs EXCEPT ![r] =
            IF ContinuesAfterVerify(isValidTx)
            THEN [@ EXCEPT !.pc = "insert", !.isValidTx = isValidTx]
            ELSE [Responded(@, 400) EXCEPT !.isValidTx = isValidTx]]
    /\ UNCHANGED <<walletVars, callVars, multiVars, privNetVars, claimVars,
                   sessionVars, rival, pure, claimingId, claimRuns, domainRows>>

\* The INSERT of request r is run: on an error (the UNIQUE constraint or
\* another) the route answers 500; else the row is stored and the log
\* INSERT is sent.
RegisterInserted(r) ==
    /\ regs[r].pc = "insert"
    /\ \E dbOk \in BOOLEAN :
         LET domain == ToLowerCase(regs[r].domain) IN
           IF UniqueViolated(domainRows, domain) \/ ~dbOk
           THEN /\ regs' = [regs EXCEPT ![r] =
                              [Responded(@, 500) EXCEPT !.dbError =
                                 IF UniqueViolated(domainRows, domain)
                                 THEN "unique" ELSE "insert"]]
                /\ UNCHANGED domainRows
           ELSE /\ domainRows' = Append(domainRows,
                                   [domain |-> domain,
                                    address |-> regs[r].address])
                /\ regs' = [regs EXCEPT ![r].pc = "log",
                                        ![r].id = Len(domainRows) + 1]
    /\ UNCHANGED <<walletVars, callVars, multiVars, privNetVars, claimVars,
                   sessionVars, rival, pure, claimingId, claimRuns>>

\* The INSERT into registration_logs of request r is run: 201, or 500 on
\* an error.
RegisterLogged(r) ==
    /\ regs[r].pc = "log"
    /\ \E dbOk \in BOOLEAN :
         regs' = [regs EXCEPT ![r] =
            IF dbOk THEN Responded(@, 201)
            ELSE [Responded(@, 500) EXCEPT !.dbError = "log"]]
    /\ UNCHANGED <<walletVars, callVars, multiVars, privNetVars, claimVars,
                   sessionVars, rival, pure, claimingId, claimRuns, domainRows>>

\* ------------------------------------------------------- specifications
NoFetch == [thrown |-> FALSE, balance |-> 0, nonce |-> 0]

InitTabs(open, maxN) ==
    /\ pc \in {f \in [Tabs -> {"idle", "closed"}] :
                 \A t \in Tabs : f[t] = "idle" <=> t \in open}
    /\ recipients \in {f \in [Tabs -> {Form(n) : n \in 1..maxN}] :
                         \A t \in Tabs \ open : f[t] = Form(1)}
    /\ validRecipients = [t \in Tabs |-> <<>>]
    /\ balResp = [t \in Tabs |-> NoResponse]
    /\ stResp = [t \in Tabs |-> NoResponse]
    /\ fetched = [t \in Tabs |-> NoFetch]
    /\ currentNonce = [t \in Tabs |-> 0]
    /\ batchIdx = [t \in Tabs |-> 0]
    /\ txs = [t \in Tabs |-> <<>>]
    /\ results = [t \in Tabs |-> <<>>]
    /\ isSending = [t \in Tabs |-> FALSE]
    /\ refreshDue = [t \in Tabs |-> FALSE]
    /\ fetches = [t \in Tabs |-> 0]
    /\ known = [t \in Tabs |-> {}]
    /\ raced = [t \in Tabs |-> FALSE]
    /\ readOk = [t \in Tabs |-> FALSE]
    /\ pristine = [t \in Tabs |-> FALSE]
    /\ confirmed = {}
    /\ netChanged = FALSE

\* One tab, one multi-send of up to MaxRecipients recipients.
Init ==
    /\ InitTabs({1}, MaxRecipients)
    /\ acctNonce \in 0..MaxStartCount
    /\ staged = {}
    /\ nonce = [t \in Tabs |-> 0]
    /\ CoreIdle

Next ==
    \E t \in Tabs :
        \/ StartSend(t)
        \/ BalanceResponds(t)
        \/ StagingResponds(t)
        \/ FetchReturns(t)
        \/ PrepareItem(t)
        \/ SendResponds(t)
        \/ BatchSettled(t)
        \/ DelayElapsed(t)
        \/ StartRefresh(t)
        \/ RefreshReturns(t)

Spec == Init /\ [][Next]_vars

\* Two tabs of the same wallet, each with one small multi-send, and a
\* network that confirms staged transactions.
InitTwoTabs ==
    /\ InitTabs({1, 2}, MaxTabRecipients)
    /\ acctNonce \in 0..MaxStartCount
    /\ staged = {}
    /\ nonce \in {f \in [Tabs -> 0..MaxStartCount] : f[1] = 0}
    /\ CoreIdle

NextTabs ==
    \/ \E t \in Tabs :
        \/ StartSend(t)
        \/ BalanceResponds(t)
        \/ StagingResponds(t)
        \/ FetchReturns(t)
        \/ PrepareItem(t)
        \/ SendResponds(t)
        \/ BatchSettled(t)
    \/ Confirm

SpecTabs == InitTwoTabs /\ [][NextTabs]_vars

\* The transactions other sessions may have staged before this one.
StagedBefore ==
    {[from |-> Wallet, nonce |-> x, tab |-> 0, idx |-> x] : x \in 1..MaxStagedNonce}
    \cup {[from |-> Wallet, nonce |-> NaN, tab |-> 0, idx |-> 0],
          [from |-> Stranger, nonce |-> MaxStagedNonce + 1, tab |-> 0, idx |-> 0]}

\* fetchBalance alone: the dashboard of one tab refreshes against a network
\* with any confirmed count and any staged transactions.
InitNonce ==
    /\ InitTabs({1}, 1)
    /\ acctNonce \in 0..MaxCount
    /\ staged \in SUBSET StagedBefore
    /\ nonce = [t \in Tabs |-> 0]
    /\ CoreIdle

NextNonce ==
    \E t \in Tabs :
        \/ StartRefresh(t)
        \/ BalanceResponds(t)
        \/ StagingResponds(t)
        \/ RefreshReturns(t)

SpecNonce == InitNonce /\ [][NextNonce]_vars

\* ------------------------------------------- specifications of the core
\* No tab runs a multi-send.
WalletClosed ==
    /\ InitTabs({}, 1)
    /\ acctNonce \in 0..MaxStartCount
    /\ staged = {}
    /\ nonce = [t \in Tabs |-> 0]

\* The transfers pending for the wallet at the start: ids 1..n in either
\* order, each with any payload.
PendingChoices ==
    UNION {{[k \in 1..n |-> PendingTransfer(IF up THEN k ELSE n + 1 - k,
                                            s[IF up THEN k ELSE n + 1 - k])] :
              s \in [1..n -> Seals], up \in BOOLEAN} : n \in 0..MaxTransfers}

\* One call of any operation of utils/api.ts, by a caller whose components
\* are mounted (the pending transfers are listed): the account's funds are
\* split between public and encrypted balance, the first pending transfer
\* does not decrypt.
InitCore ==
    /\ WalletClosed
    /\ CallerIdle
    /\ callsLeft = 1
    /\ publicRaw \in {k * MU_FACTOR : k \in 0..MaxOct}
    /\ encryptedRaw = MaxOct * MU_FACTOR - publicRaw
    /\ shownBalance = publicRaw
    /\ pendingTransfers = [k \in 1..MaxTransfers |->
                             PendingTransfer(k, IF k = 1 THEN "forged" ELSE "good")]
    /\ transfers = ListEntries(pendingTransfers)

NextCore ==
    \/ StartSendTx
    \/ SendTxAnswered
    \/ StartSendMultiple
    \/ MultiItemAnswered
    \/ StartDetails
    \/ DetailsAnswered
    \/ StartHistory
    \/ HistoryAnswered
    \/ StartBalance
    \/ BalanceFetched
    \/ StartEncrypt
    \/ EncryptViewed
    \/ StartDecrypt
    \/ DecryptViewed
    \/ BalancePosted
    \/ StartTransfer
    \/ AddressInfoAnswered
    \/ PublicKeyAnswered
    \/ TransferPosted
    \/ StartList
    \/ ListAnswered
    \/ StartClaim
    \/ ClaimAnswered

SpecCore == InitCore /\ [][NextCore]_vars

\* The encrypted balance: a caller encrypts, decrypts, transfers and
\* refreshes the balance shown, MaxBalanceCalls times; the balance shown may
\* be stale from the start.
InitPrivate ==
    /\ WalletClosed
    /\ CallerIdle
    /\ callsLeft = MaxBalanceCalls
    /\ publicRaw \in {k * MU_FACTOR : k \in 0..MaxOct}
    /\ encryptedRaw = MaxOct * MU_FACTOR - publicRaw
    /\ shownBalance \in {publicRaw, MaxOct * MU_FACTOR}
    /\ pendingTransfers = <<>>
    /\ transfers = <<>>

NextPrivate ==
    \/ StartBalance
    \/ BalanceFetched
    \/ StartEncrypt
    \/ EncryptViewed
    \/ StartDecrypt
    \/ DecryptViewed
    \/ BalancePosted
    \/ StartTransfer
    \/ AddressInfoAnswered
    \/ PublicKeyAnswered
    \/ TransferPosted

SpecPrivate == InitPrivate /\ [][NextPrivate]_vars

\* Claimable transfers: a caller lists and claims, MaxClaimCalls times, with
\* any transfers pending at the start.
InitClaim ==
    /\ WalletClosed
    /\ CallerIdle
    /\ callsLeft = MaxClaimCalls
    /\ publicRaw = MaxOct * MU_FACTOR
    /\ encryptedRaw = 0
    /\ shownBalance = publicRaw
    /\ pendingTransfers \in PendingChoices
    /\ transfers = <<>>

NextClaim ==
    \/ StartList
    \/ ListAnswered
    \/ StartClaim
    \/ ClaimAnswered

SpecClaim == InitClaim /\ [][NextClaim]_vars

\* The session: wallets are added with and without a password, switched,
\* removed, the session is ended and unlocked, the page is reloaded; the
\* browser starts with an empty storage.
InitSession ==
    /\ WalletClosed
    /\ cpc = "idle"
    /\ call = NoCall
    /\ reqs = <<>>
    /\ posted = NoPost
    /\ encData = NoEncData
    /\ outcome = NoOutcome
    /\ items = <<>>
    /\ multiHashes = <<>>
    /\ credits = [i \in 1..MaxTransfers |-> 0]
    /\ callsLeft = 0
    /\ publicRaw = MaxOct * MU_FACTOR
    /\ encryptedRaw = 0
    /\ shownBalance = publicRaw
    /\ pendingTransfers = <<>>
    /\ transfers = <<>>
    /\ wallet = NoWallet
    /\ wallets = <<>>
    /\ isLocked = FALSE
    /\ storage = NoStorage
    /\ rival = NoRival
    /\ pure = NoPure
    /\ LateIdle

NextSession ==
    \/ AddWallet
    \/ CreatePassword
    \/ SwitchWallet
    \/ RemoveWallet
    \/ DisconnectWallet
    \/ Unlock
    \/ Reload

SpecSession == InitSession /\ [][NextSession]_vars

\* The wallet list: wallets are added (with and without a password),
\* switched and removed, the session is ended and the page loaded again.
NextWallets ==
    \/ AddWallet
    \/ CreatePassword
    \/ SwitchWallet
    \/ RemoveWallet
    \/ DisconnectWallet
    \/ Reload

SpecWallets == InitSession /\ [][NextWallets]_vars

\* Unlocking: wallets are set up with a password, the session is ended or
\* the page loaded again, and passwords are tried on the lock screen.
NextUnlock ==
    \/ AddWallet
    \/ CreatePassword
    \/ RemoveWallet
    \/ DisconnectWallet
    \/ Reload
    \/ UnlockAttempt

SpecUnlock == InitSession /\ [][NextUnlock]_vars

\* The backend: up to MaxRegs POST /register requests are served at once on
\* an empty domains table.
NextBackend ==
    \/ RegisterArrives
    \/ \E r \in DOMAIN regs : RegisterSelected(r)
    \/ \E r \in DOMAIN regs : RegisterVerified(r)
    \/ \E r \in DOMAIN regs : RegisterInserted(r)
    \/ \E r \in DOMAIN regs : RegisterLogged(r)

SpecBackend == InitSession /\ [][NextBackend]_vars

\* The transaction builder and the fee rule, called MaxPureCalls times.
InitTx ==
    /\ WalletClosed
    /\ CoreIdle

NextTx ==
    \/ BuildTransaction
    \/ CalculateFee

SpecTx == InitTx /\ [][NextTx]_vars

\* Rows of a form the user may have left invalid.
MaxFormRows == 2
\* The row k as the user may have filled it in: with or without an
\* address, the amount not a number, zero or k, the message empty, of the
\* longest length allowed or one longer.
InputRows(k) ==
    {[address |-> a, amount |-> m, message |-> l] :
       a \in {0, k}, m \in {NaN, 0, k},
       l \in {0, MaxMessageLen, MaxMessageLen + 1}}
InputForms ==
    UNION {{f \in [1..n -> UNION {InputRows(k) : k \in 1..n}] :
              \A k \in 1..n : f[k] \in InputRows(k)} : n \in 1..MaxFormRows}

\* One tab whose multi-send form holds any rows, valid or not; the user
\* presses Send.
InitInput ==
    /\ pc = [t \in Tabs |-> IF t = 1 THEN "idle" ELSE "closed"]
    /\ recipients \in {f \in [Tabs -> InputForms \cup {Form(1)}] :
                         f[2] = Form(1) /\ f[1] \in InputForms}
    /\ validRecipients = [t \in Tabs |-> <<>>]
    /\ balResp = [t \in Tabs |-> NoResponse]
    /\ stResp = [t \in Tabs |-> NoResponse]
    /\ fetched = [t \in Tabs |-> NoFetch]
    /\ currentNonce = [t \in Tabs |-> 0]
    /\ batchIdx = [t \in Tabs |-> 0]
    /\ txs = [t \in Tabs |-> <<>>]
    /\ results = [t \in Tabs |-> <<>>]
    /\ isSending = [t \in Tabs |-> FALSE]
    /\ refreshDue = [t \in Tabs |-> FALSE]
    /\ fetches = [t \in Tabs |-> 0]
    /\ known = [t \in Tabs |-> {}]
    /\ raced = [t \in Tabs |-> FALSE]
    /\ readOk = [t \in Tabs |-> FALSE]
    /\ pristine = [t \in Tabs |-> FALSE]
    /\ confirmed = {}
    /\ netChanged = FALSE
    /\ acctNonce = 0
    /\ staged = {}
    /\ nonce = [t \in Tabs |-> 0]
    /\ CoreIdle

NextInput ==
    \E t \in Tabs :
        \/ StartSend(t)
        \/ RejectSend(t)
        \/ BalanceResponds(t)
        \/ StagingResponds(t)
        \/ FetchReturns(t)

SpecInput == InitInput /\ [][NextInput]_vars

\* The format functions, each applied to an input drawn at the start: a
\* domain for the two validators, a private-key text for the import.
InitFormat ==
    /\ WalletClosed
    /\ cpc = "idle"
    /\ call = NoCall
    /\ reqs = <<>>
    /\ posted = NoPost
    /\ encData = NoEncData
    /\ outcome = NoOutcome
    /\ items = <<>>
    /\ multiHashes = <<>>
    /\ credits = [i \in 1..MaxTransfers |-> 0]
    /\ callsLeft = 0
    /\ publicRaw = MaxOct * MU_FACTOR
    /\ encryptedRaw = 0
    /\ shownBalance = publicRaw
    /\ pendingTransfers = <<>>
    /\ transfers = <<>>
    /\ wallet = NoWallet
    /\ wallets = <<>>
    /\ isLocked = FALSE
    /\ storage = NoStorage
    /\ rival = NoRival
    /\ pure \in {<<[fn |-> "domain", arg |-> d]>> : d \in DomainInputs}
                 \cup {<<[fn |-> "key", arg |-> t]>> : t \in KeyTexts}
    /\ LateIdle

NextFormat ==
    \/ ClientValidates
    \/ BackendValidates
    \/ ImportKey

SpecFormat == InitFormat /\ [][NextFormat]_vars

\* Two calls on the encrypted balance of one address at once: the caller's
\* and a rival's, each encryptBalance or decryptBalance, in any interleaving
\* of their requests.
InitRival ==
    /\ WalletClosed
    /\ cpc = "idle"
    /\ call = NoCall
    /\ reqs = <<>>
    /\ posted = NoPost
    /\ encData = NoEncData
    /\ outcome = NoOutcome
    /\ items = <<>>
    /\ multiHashes = <<>>
    /\ credits = [i \in 1..MaxTransfers |-> 0]
    /\ callsLeft = 1
    /\ publicRaw \in {k * MU_FACTOR : k \in 0..MaxOct}
    /\ encryptedRaw = MaxOct * MU_FACTOR - publicRaw
    /\ shownBalance = publicRaw
    /\ pendingTransfers = <<>>
    /\ transfers = <<>>
    /\ wallet = Wallet
    /\ wallets = <<Wallet>>
    /\ isLocked = FALSE
    /\ storage = [NoStorage EXCEPT !.wallets = Stored(<<Wallet>>),
                                   !.activeWalletId = Wallet]
    /\ rival = [NoRival EXCEPT !.before = encryptedRaw]
    /\ pure = NoPure
    /\ LateIdle

NextRival ==
    \/ StartEncrypt
    \/ EncryptViewed
    \/ StartDecrypt
    \/ DecryptViewed
    \/ BalancePosted
    \/ RivalStarts
    \/ RivalViewed
    \/ RivalPosted

SpecRival == InitRival /\ [][NextRival]_vars

\* The claim view: it mounts and lists the pending transfers, and the user
\* clicks Claim buttons while earlier claims are still under way.
InitClaimView ==
    /\ WalletClosed
    /\ cpc = "idle"
    /\ call = NoCall
    /\ reqs = <<>>
    /\ posted = NoPost
    /\ encData = NoEncData
    /\ outcome = NoOutcome
    /\ items = <<>>
    /\ multiHashes = <<>>
    /\ credits = [i \in 1..MaxTransfers |-> 0]
    /\ callsLeft = 0
    /\ publicRaw = MaxOct * MU_FACTOR
    /\ encryptedRaw = 0
    /\ shownBalance = publicRaw
    /\ pendingTransfers \in {[k \in 1..n |-> PendingTransfer(k, "good")] :
                               n \in 0..MaxTransfers}
    /\ transfers = <<>>
    /\ wallet = Wallet
    /\ wallets = <<Wallet>>
    /\ isLocked = FALSE
    /\ storage = [NoStorage EXCEPT !.wallets = Stored(<<Wallet>>),
                                   !.activeWalletId = Wallet]
    /\ rival = NoRival
    /\ pure = <<>>
    /\ claimingId = NoClaim
    /\ claimRuns = <<MountRun>>
    /\ domainRows = <<>>
    /\ regs = <<>>

NextClaimView ==
    \/ ClickClaim
    \/ \E r \in DOMAIN claimRuns : ClaimRunAnswered(r)
    \/ \E r \in DOMAIN claimRuns : ClaimRunListed(r)

SpecClaimView == InitClaimView /\ [][NextClaimView]_vars

\* ------------------------------------------------------------ the claims
\* max(confirmedCount, max(pendingNonces \cup {0})) + 1
NextNonceOf(c, P) == Max({c, 0} \cup P) + 1

\* The nonces of the address among the staged transactions a response lists.
PendingNonces(st, address) ==
    {tx.nonce : tx \in {x \in st.staged : x.from = address /\ x.nonce # NaN}}

\* fetchBalance returns to the dashboard of tab t in this step.
Returning(t) == pc[t] = "refreshing" /\ pc'[t] # "refreshing"

\* C1 as stated: whenever fetchBalance has read a confirmed count c and the
\* staged nonces P of the address, the next usable nonce (its nonce + 1) is
\* max(c, max(P \cup {0})) + 1, whatever other addresses have staged.
C1_NextNonceAsStated ==
    [][\A t \in Tabs :
         (Returning(t) /\ balResp[t].kind = "ok" /\ stResp[t].kind = "ok")
         => fetched'[t].nonce + 1 =
              NextNonceOf(balResp[t].nonce, PendingNonces(stResp[t], Wallet))]_vars

\* C1 amended: the same when the balance field of the response is numeric;
\* with a non-numeric balance fetchBalance returns nonce 0 (next nonce 1).
C1_NextNonce ==
    [][\A t \in Tabs :
         (Returning(t) /\ balResp[t].kind = "ok" /\ stResp[t].kind = "ok")
         => fetched'[t].nonce + 1 =
              IF balResp[t].balance = NaN
              THEN 1
              ELSE NextNonceOf(balResp[t].nonce,
                               PendingNonces(stResp[t], Wallet))]_vars

\* c = 5 with {6, 7} staged by the wallet and 8 staged by a stranger gives 8.
C1_Witness ==
    /\ pc[1] = "idle" /\ readOk[1]
    /\ acctNonce = 5
    /\ WalletNonces(staged) = {6, 7}
    /\ \E tx \in staged : tx.from = Stranger /\ tx.nonce = 8
    /\ fetched[1].nonce + 1 = 8

\* C10 as stated: fetchBalance throws when the balance request fails, and
\* when only the staging request fails (network error, non-OK, unparseable
\* body, no staged_transactions) it returns the confirmed count alone.
C10_DegradeAsStated ==
    [][\A t \in Tabs :
         Returning(t) =>
           /\ balResp[t].kind # "ok" => fetched'[t].thrown
           /\ (balResp[t].kind = "ok" /\ StagingSeen(t).kind # "ok")
              => /\ ~fetched'[t].thrown
                 /\ fetched'[t].nonce = balResp[t].nonce]_vars

\* C10 amended: as stated, except that with a non-numeric balance field the
\* nonce returned is 0 instead of the confirmed count.
C10_Degrade ==
    [][\A t \in Tabs :
         Returning(t) =>
           /\ balResp[t].kind # "ok" => fetched'[t].thrown
           /\ (balResp[t].kind = "ok" /\ StagingSeen(t).kind # "ok")
              => /\ ~fetched'[t].thrown
                 /\ fetched'[t].nonce =
                      IF balResp[t].balance = NaN THEN 0 ELSE balResp[t].nonce]_vars

\* A fetch whose staging read failed while the wallet had a higher nonce
\* staged: the confirmed count came back.
C10_Witness ==
    /\ pc[1] = "idle" /\ ~readOk[1]
    /\ ~fetched[1].thrown /\ fetched[1].balance = AcctBalance
    /\ acctNonce > 0 /\ fetched[1].nonce = acctNonce
    /\ \E x \in WalletNonces(staged) : x > acctNonce

\* The multi-send of tab t has its nonce and is in, or past, its batch loop.
Sending(t) == pc[t] \in {"prepare", "await", "delay"}
Sent(t) == pc[t] \in {"done", "refreshing"} /\ validRecipients[t] # <<>>
BatchOf(k) == (k - 1) \div batchSize
IndexInBatch(k) == (k - 1) % batchSize

\* C2: with starting nonce s = fetched nonce + 1, the transaction at index i
\* of batch b carries s + b*5 + i, so the transactions carry s, s+1, ... in
\* input order without gap or duplicate, one per recipient, whatever the
\* outcomes of the submissions.
C2_BatchNonces ==
    \A t \in Tabs :
      /\ \A k \in DOMAIN txs[t] :
           /\ txs[t][k].tx.nonce =
                (currentNonce[t] + 1) + BatchOf(k) * 5 + IndexInBatch(k)
           /\ txs[t][k].tx.nonce = (currentNonce[t] + 1) + (k - 1)
           /\ txs[t][k].tx.to_ = validRecipients[t][k].address
           /\ k > 1 => txs[t][k].tx.nonce = txs[t][k - 1].tx.nonce + 1
      /\ Sent(t) => Len(txs[t]) = Len(validRecipients[t])

\* Six recipients sent as batches of 5 and 1, the third rejected, the sixth
\* accepted with nonce s + 5.
C2_Witness ==
    /\ pc[1] = "done" /\ Len(txs[1]) = 6
    /\ txs[1][3].status = "rejected"
    /\ txs[1][6].status = "accepted"
    /\ txs[1][6].tx.nonce = currentNonce[1] + 6

\* C3: fire-and-continue. Only a failed nonce fetch ends a multi-send early;
\* otherwise every recipient's transaction is submitted exactly once and the
\* outcome reported for each is the one of its own request, whatever
\* happened to the others.
C3_FireAndContinue ==
    \A t \in Tabs :
      /\ pc[t] = "failed" => (fetched[t].thrown /\ txs[t] = <<>>)
      /\ Sent(t) =>
           /\ \A k \in DOMAIN validRecipients[t] :
                Cardinality({j \in DOMAIN txs[t] :
                               txs[t][j].tx.to_ = validRecipients[t][k].address}) = 1
           /\ Len(results[t]) = Len(validRecipients[t])
           /\ \A k \in DOMAIN results[t] :
                results[t][k].success = (txs[t][k].status = "accepted")

\* A rejection and a network error in the first batch, successes after them
\* in the same batch and in the next one.
C3_Witness ==
    /\ pc[1] = "done" /\ Len(results[1]) = 6
    /\ txs[1][1].status = "rejected" /\ txs[1][2].status = "netError"
    /\ results[1][3].success /\ results[1][6].success
    /\ ~results[1][1].success /\ ~results[1][2].success

\* C4: no request of a later batch is started while a request of an earlier
\* batch is still without its outcome.
C4_BatchBarrier ==
    \A t \in Tabs :
      \A j, k \in DOMAIN txs[t] :
        BatchOf(j) < BatchOf(k) => txs[t][j].status # "inflight"

\* The request of the second batch is in flight after a first batch that
\* ended with a network error on its first request and an acceptance of
\* its last.
C4_Witness ==
    /\ Len(txs[1]) = 6 /\ txs[1][6].status = "inflight"
    /\ txs[1][1].status = "netError" /\ txs[1][5].status = "accepted"

\* C5: the result list follows the input: entry k carries the address and
\* amount of the k-th recipient, and a finished multi-send has one entry per
\* submitted recipient.
C5_ResultsInInputOrder ==
    \A t \in Tabs :
      /\ Len(results[t]) <= Len(validRecipients[t])
      /\ \A k \in DOMAIN results[t] :
           /\ results[t][k].recipient = validRecipients[t][k].address
           /\ results[t][k].amount = validRecipients[t][k].amount
      /\ Sent(t) => Len(results[t]) = Len(txs[t])

\* Six results, a failure among them, the last for the sixth recipient.
C5_Witness ==
    /\ pc[1] = "done" /\ Len(results[1]) = 6
    /\ ~results[1][2].success /\ results[1][4].success
    /\ results[1][6].recipient = Recipient(6).address

C7_RefetchedPerBatchAsStated ==
    \A t \in Tabs :
      pc[t] \in {"prepare", "await"} => fetches[t] = batchIdx[t] + 1

\* C7 amended: every multi-send fetches the nonce state from the network
\* once, at its start, never taking the dashboard's cached nonce, and uses
\* that value for all its batches without fetching again.
C7_FetchedOncePerCall ==
    \A t \in Tabs :
      Sending(t) => /\ fetches[t] = 1
                    /\ ~fetched[t].thrown
                    /\ currentNonce[t] = fetched[t].nonce

\* The second batch is prepared from the one fetch of the call, whose nonce
\* differs from the dashboard's cached one.
C7_Witness ==
    /\ pc[1] = "prepare" /\ batchIdx[1] = 1 /\ fetches[1] = 1
    /\ currentNonce[1] # nonce[1]

\* C8: two tabs whose fetches both return (with a numeric balance and the
\* staged list) before the network has staged or confirmed anything of
\* either get the same nonce, and give the same nonce to their k-th
\* transactions.
C8_TabsCollide ==
    (/\ \A t \in Tabs : pc[t] \in {"prepare", "await", "done"}
     /\ \A t \in Tabs : pristine[t] /\ readOk[t])
    => /\ currentNonce[1] = currentNonce[2]
       /\ \A k \in DOMAIN txs[1] \cap DOMAIN txs[2] :
            txs[1][k].tx.nonce = txs[2][k].tx.nonce

\* The network has staged two transactions of the wallet, one from each
\* tab, with the same nonce.
C8_Witness ==
    \E x, y \in staged :
        /\ x.tab = 1 /\ y.tab = 2
        /\ x.from = Wallet /\ y.from = Wallet
        /\ x.nonce = y.nonce

\* C9 as stated: every nonce a multi-send assigns is greater than the nonce
\* of every transaction of the wallet that was staged or confirmed when it
\* fetched its nonce state.
C9_NoReuseAsStated ==
    \A t \in Tabs :
      pc[t] \in {"prepare", "await", "done"} =>
        \A k \in DOMAIN txs[t] : \A x \in known[t] : txs[t][k].tx.nonce > x

\* C9 amended: the same, provided the fetch read a numeric balance and the
\* staged list, and no transaction of the wallet was confirmed after its
\* balance read and before its staging read.
C9_NoReuse ==
    \A t \in Tabs :
      (pc[t] \in {"prepare", "await", "done"} /\ readOk[t] /\ ~raced[t]) =>
        \A k \in DOMAIN txs[t] : \A x \in known[t] : txs[t][k].tx.nonce > x

\* Tab 2 sends after a transaction of tab 1 was staged, with a higher nonce.
C9_Witness ==
    /\ readOk[2] /\ ~raced[2]
    /\ known[2] # {}
    /\ txs[2] # <<>>
    /\ \E x \in staged \cup confirmed : x.tab = 1 /\ x.nonce \in known[2]

\* The submissions of tab t that have no outcome yet.
InFlight(t) == {k \in DOMAIN txs[t] : txs[t][k].status = "inflight"}

\* C14: at no moment of a multi-send are more than 5 of its submissions in
\* flight, however many recipients it has.
C14_AtMostFiveInFlight ==
    \A t \in Tabs : Cardinality(InFlight(t)) <= 5

\* A whole batch of five is in flight while a sixth recipient waits for the
\* next batch.
C14_Witness ==
    /\ Cardinality(InFlight(1)) = 5
    /\ Len(validRecipients[1]) = 6
    /\ Len(txs[1]) = 5

\* ------------------------------------------- the claims on utils/api.ts
\* The caller's call has ended with an outcome.
Ended(op) == outcome.op = op /\ outcome.how # "none"
\* A request of the call itself failed (the list refresh after a claim is
\* the component's own request).
CallFailed(kinds) ==
    \E k \in DOMAIN reqs : /\ reqs[k].endpoint # "/pending_private_transfers"
                            /\ reqs[k].kind \in kinds

\* The two documented success bodies of /send-tx.
AcceptedJson(text) ==
    JSONParse(text).parsed /\ ~JSONParse(text).null
    /\ JSONParse(text).status = "accepted"
RawOkText(text) == text \in {"OK h1", "OK h2"}

\* C11 as stated: sendTransaction reports success exactly for an OK response
\* whose body is JSON with status "accepted" (hash = tx_hash) or the raw text
\* "OK <64-hex-hash>" (hash = the hex digits); every other response is a
\* failure whose error is the response body.
C11_OutcomesAsStated ==
    Ended("sendTransaction") =>
      LET r == reqs[1] IN
        /\ outcome.how = "returned"
        /\ IF r.kind = "ok" /\ AcceptedJson(r.text)
           THEN outcome.success /\ outcome.hash = JSONParse(r.text).tx_hash
           ELSE IF r.kind = "ok" /\ RawOkText(r.text)
                THEN outcome.success /\ outcome.hash = HashMatch(r.text)
                ELSE ~outcome.success /\ outcome.error = r.text

\* The operations C12 names.
PublicOps ==
    {"fetchBalance", "fetchTransactionHistory", "fetchTransactionDetails",
     "sendTransaction", "encryptBalance", "decryptBalance",
     "createPrivateTransfer", "claimPrivateTransfer"}
ResultOps ==
    {"sendTransaction", "encryptBalance", "decryptBalance",
     "createPrivateTransfer", "claimPrivateTransfer"}

MainRequest ==
    CASE call.op = "fetchTransactionHistory" -> reqs[2]
      [] OTHER -> reqs[1]

C13_PerItemOutcomesAsStated ==
    Ended("sendMultipleTransactions") =>
      \A k \in DOMAIN items :
        items[k].status = "hash" =>
          \E j \in DOMAIN multiHashes : multiHashes[j] = items[k].hash


\* The ciphertext posted to /encrypt_balance or /decrypt_balance.
BalancePosts == {"/encrypt_balance", "/decrypt_balance"}
PostedSign == IF posted.endpoint = "/encrypt_balance" THEN 1 ELSE -1

\* C15: encryptBalance and decryptBalance never patch in place. Whenever
\* one of them has submitted a ciphertext, the first request of the call was
\* the fetch of the encrypted-balance snapshot e and it was answered with a
\* snapshot, the posted amount is the requested amount a in micro units, and
\* the ciphertext opens (under the wallet's key) to the new total e + a for
\* encrypt and e - a for decrypt; while the post is in flight after a full
\* snapshot, e is the node's current encrypted balance.
C15_FreshTotal ==
    posted.endpoint \in BalancePosts =>
        /\ call.op = (IF posted.endpoint = "/encrypt_balance"
                      THEN "encryptBalance" ELSE "decryptBalance")
        /\ Len(reqs) = 2
        /\ reqs[1].endpoint = "/view_encrypted_balance"
        /\ reqs[1].kind \in {"ok", "noRaw"}
        /\ reqs[2].endpoint = posted.endpoint
        /\ ~encData.null
        /\ posted.amount = ToMicro(call.num, call.den)
        /\ DecodeBalance(posted.data, WalletKey)
             = encData.encrypted_raw + PostedSign * posted.amount
        /\ (reqs[1].kind = "ok" /\ cpc \in {"encPost", "decPost"})
             => encData.encrypted_raw = encryptedRaw

\* C15 witness: a second call, made after an earlier one changed the
\* encrypted balance, has submitted a ciphertext for a total built on a
\* non-zero snapshot.
C15_Witness ==
    /\ posted.endpoint \in BalancePosts
    /\ callsLeft = 0
    /\ encData.encrypted_raw > 0
    /\ DecodeBalance(posted.data, WalletKey)
         = encData.encrypted_raw + PostedSign * posted.amount
    /\ \E k \in 1..Len(reqs) : reqs[k].endpoint = posted.endpoint


\* A request to the endpoint is among the requests of the running or last
\* call.
Requested(endpoint) == \E k \in 1..Len(reqs) : reqs[k].endpoint = endpoint

\* C16: decryptBalance cannot decrypt more than is currently encrypted.
\* When the requested amount exceeds the encrypted balance of the fetched
\* snapshot, the call returns the failure "Insufficient encrypted balance"
\* and has sent no /decrypt_balance; and no ciphertext submitted to
\* /decrypt_balance encodes a negative encrypted balance.
C16_NoOverdraw ==
    /\ (/\ call.op = "decryptBalance"
        /\ ~encData.null
        /\ ToMicro(call.num, call.den) > encData.encrypted_raw)
         => /\ outcome = Returned("decryptBalance",
                                  Failed("Insufficient encrypted balance"))
            /\ ~Requested("/decrypt_balance")
            /\ posted = NoPost
    /\ posted.endpoint = "/decrypt_balance"
         => DecodeBalance(posted.data, WalletKey) >= 0

\* C16 witness: a decryption of more than a non-zero encrypted balance was
\* refused.
C16_Witness ==
    /\ call.op = "decryptBalance"
    /\ ~encData.null
    /\ encData.encrypted_raw > 0
    /\ ToMicro(call.num, call.den) > encData.encrypted_raw
    /\ outcome = Returned("decryptBalance",
                          Failed("Insufficient encrypted balance"))

\* C17 as stated: encryptBalance sends no /encrypt_balance request for an
\* amount that exceeds the public balance of the fetched snapshot.
C17_NoOverEncryptAsStated ==
    posted.endpoint = "/encrypt_balance" =>
        posted.amount <= encData.public_raw


\* The recipient's address info came back and reports has_public_key false.
ReportsNoKey ==
    /\ call.op = "createPrivateTransfer"
    /\ Len(reqs) >= 1
    /\ reqs[1].endpoint = "/address"
    /\ reqs[1].kind = "ok"
    /\ reqs[1].text = "no key"

\* C18: when the recipient address reports has_public_key false,
\* createPrivateTransfer has failed with the recipient-key-missing error
\* and the address request is the only request of the call: neither
\* /public_key nor /private_transfer was requested and nothing was posted.
C18_KeyMissingStops ==
    ReportsNoKey =>
        /\ outcome = Returned("createPrivateTransfer",
                              Failed("Recipient has no public key"))
        /\ cpc = "idle"
        /\ Len(reqs) = 1
        /\ ~Requested("/public_key")
        /\ ~Requested("/private_transfer")
        /\ posted = NoPost

\* C18 witness: a transfer to a recipient without a public key has failed.
C18_Witness ==
    /\ ReportsNoKey
    /\ outcome.op = "createPrivateTransfer"
    /\ ~outcome.success
    /\ outcome.error = "Recipient has no public key"


\* The step in which a listing of the claimable transfers is answered with
\* the node's list.
ListingFetched ==
    /\ cpc = "list"
    /\ cpc' = "idle"
    /\ reqs'[Len(reqs')].endpoint = "/pending_private_transfers"
    /\ reqs'[Len(reqs')].kind = "ok"

\* The amount shown for a fetched transfer: its amount in OCT when its
\* payload is sealed for this wallet, else unknown.
ShownAmount(p) ==
    IF p.seal = "good" THEN [num |-> p.amount, den |-> MU_FACTOR] ELSE NullAmount

\* C19: listing claimable transfers processes each transfer independently.
\* Whichever of the fetched transfers fail in the shared-secret derivation
\* or in the decryption (or carry no payload), the list set by the listing
\* has one entry per fetched transfer, in the fetched order, with the
\* decrypted amount for those that decrypt and null for those that fail.
C19_EachTransferListed ==
    [][ListingFetched =>
         /\ Len(transfers') = Len(pendingTransfers)
         /\ \A k \in 1..Len(pendingTransfers) :
              /\ transfers'[k].id = pendingTransfers[k].id
              /\ transfers'[k].decryptedAmount = ShownAmount(pendingTransfers[k])]_vars

\* C19 witness: a list of two entries in the node's order, the first with
\* amount unknown and the second decrypted.
C19_Witness ==
    /\ outcome.op = "fetchTransfers"
    /\ Len(transfers) = 2
    /\ Len(pendingTransfers) = 2
    /\ \A k \in 1..2 : transfers[k].id = pendingTransfers[k].id
    /\ transfers[1].decryptedAmount = NullAmount
    /\ transfers[2].decryptedAmount # NullAmount

\* The step in which a claim is answered.
ClaimStep == cpc = "claim" /\ cpc' # "claim"

\* C20: claim is idempotent at the protocol level, given a node that
\* claims a pending transfer once and refuses a transfer that is not
\* pending. Over any sequence of claim calls no transfer is credited more
\* than once, and a claim of an already credited transfer credits nothing
\* and returns a failure result, which carries the node's error whenever
\* the node answered.
C20_ClaimOnce ==
    [][ClaimStep =>
         /\ \A i \in DOMAIN credits : credits'[i] <= 1
         /\ credits[call.id] >= 1 =>
              /\ credits' = credits
              /\ outcome'.op = "claimPrivateTransfer"
              /\ ~outcome'.success
              /\ reqs'[Len(reqs')].kind = "nonOk"
                   => outcome'.error = AlreadyClaimed]_vars

\* C20 witness: a second claim of a credited transfer was refused by the
\* node and returned the node's error.
C20_Witness ==
    /\ outcome.op = "claimPrivateTransfer"
    /\ outcome.how = "returned"
    /\ ~outcome.success
    /\ outcome.error = AlreadyClaimed
    /\ credits[call.id] = 1


\* The requests of utils/api.ts that carry the wallet's private key: in the
\* X-Private-Key header (/view_encrypted_balance,
\* /pending_private_transfers) or in the JSON body as private_key or
\* from_private_key.
KeyCarriers ==
    {"/view_encrypted_balance", "/pending_private_transfers",
     "/encrypt_balance", "/decrypt_balance", "/private_transfer",
     "/claim_private_transfer"}

\* A private key is readable in localStorage: the wallets entry is the JSON
\* of Wallet objects, privateKey included.
KeyInStorage == storage.wallets.present /\ Len(storage.wallets.items) > 0

\* A request of the running or last call carried the private key.
KeySent == \E k \in 1..Len(reqs) : reqs[k].endpoint \in KeyCarriers

\* C21 as stated: no keys are stored or transmitted. In every reachable
\* state the wallet's private key is neither in browser storage nor in a
\* header or body of a request sent to the network.
C21_NoKeyStoredOrSentAsStated == ~KeyInStorage /\ ~KeySent

\* Storage holds wallet key material: the wallets in the clear, or a wallet
\* encrypted under the password.
KeyMaterialStored ==
    \/ Len(storage.wallets.items) > 0
    \/ Len(storage.encryptedWallets.items) > 0

CallsOf(fn) == {k \in DOMAIN pure : pure[k].fn = fn}
KeysOf(members) == [k \in DOMAIN members |-> members[k].key]
\* Two recorded createTransaction calls differ in nothing but the message.
SameButMessage(c, d) ==
    /\ c.num = d.num
    /\ c.den = d.den
    /\ c.now = d.now
    /\ c.publicKeyHex = d.publicKeyHex
    /\ c.message # d.message

\* The signed payload is the compact JSON of the members with these keys,
\* in this order, each with the value the transaction has for it.
PayloadIs(c, keys) ==
    /\ KeysOf(c.result.signingData) = keys
    /\ \A k \in DOMAIN c.result.signingData :
         c.result.signingData[k] = c.result.members[k]

LowFee == [num |-> 1, den |-> 1000]
HighFee == [num |-> 3, den |-> 1000]

\* C25: for every amount a = num/den, the fee tier calculateFee gives (in
\* MultiSend and in FileMultiSend) is 0.001 if a < 1000 and 0.003
\* otherwise; a = 1000 is in the higher tier.
C25_FeeTier ==
    \A k \in CallsOf("calculateFee") :
        pure[k].result = (IF pure[k].num < TierLimit * pure[k].den
                          THEN LowFee ELSE HighFee)

\* C25 witness: the fee of exactly 1000 was computed as 0.003 and the fee
\* of an amount just below it as 0.001.
C25_Witness ==
    /\ Len(pure) = 2
    /\ pure[1].fn = "calculateFee"
    /\ pure[1].num = TierLimit /\ pure[1].den = 1
    /\ pure[1].result = HighFee
    /\ pure[2].fn = "calculateFee"
    /\ pure[2].num = 3 * TierLimit - 1 /\ pure[2].den = 3
    /\ pure[2].result = LowFee

\* C26: createTransaction tags a transaction with ou "1" when its amount in
\* native units (micro amount / 1,000,000) is below 1000 and with "3"
\* otherwise, so the tag is "1" exactly when the caller-side fee of the
\* same amount is 0.001.
C26_OuTag ==
    \A k \in CallsOf("createTransaction") :
        LET c == pure[k]
            amountMu == c.result.members[3].num
            ou == c.result.members[5] IN
        /\ ou.key = "ou"
        /\ c.result.members[3].key = "amount"
        /\ amountMu = ToMicro(c.num, c.den)
        /\ ou.str = (IF amountMu < TierLimit * MU_FACTOR THEN "1" ELSE "3")
        /\ ou.str = "1" <=> calculateFee(c.num, c.den) = LowFee

\* C26 witness: a transaction of 999.67 was tagged "1" and one of 1000 "3".
C26_Witness ==
    /\ Len(pure) = 2
    /\ pure[1].fn = "createTransaction"
    /\ pure[1].num = 3 * TierLimit - 1 /\ pure[1].den = 3
    /\ pure[1].result.members[5].str = "1"
    /\ pure[2].fn = "createTransaction"
    /\ pure[2].num = TierLimit /\ pure[2].den = 1
    /\ pure[2].result.members[5].str = "3"

\* C29 as stated: for every signing payload and key, the signature that
\* createTransaction attaches verifies against the payload under the
\* attached public key (and fails for any other payload).
C29_SignatureVerifiesAsStated ==
    \A k \in CallsOf("createTransaction") :
        LET r == pure[k].result IN
        /\ Verify(r.signingData, r.signature, r.public_key)
        /\ \A j \in CallsOf("createTransaction") :
             pure[j].result.signingData # r.signingData
                 => ~Verify(pure[j].result.signingData, r.signature, r.public_key)


\* A row with an input error: an empty address, an amount that is not a
\* number or is not above zero, or a message longer than 1024 characters.
RowError(r) ==
    \/ r.address = 0
    \/ r.amount = NaN
    \/ r.amount <= 0
    \/ r.message > MaxMessageLen
InputError(rs) == \E k \in DOMAIN rs : RowError(rs[k])

\* The multi-send of the tab has issued no request: no balance or staging
\* fetch and no send-tx.
NoRequestBy(t) ==
    /\ balResp[t] = NoResponse
    /\ stResp[t] = NoResponse
    /\ fetches[t] = 0
    /\ txs[t] = <<>>
    /\ ~isSending[t]

\* C24: input errors are rejected before any network call. A multi-send
\* whose form has a recipient with an empty address, a non-numeric amount,
\* an amount <= 0 or a message longer than 1024 characters stays at the
\* form or ends at the error toast and issues no request at all.
C24_InputRejectedFirst ==
    \A t \in Tabs :
        InputError(recipients[t]) =>
            /\ pc[t] \in {"idle", "rejected"}
            /\ NoRequestBy(t)

\* C24 witness: a form whose first row is valid and whose second row has a
\* message of 1025 characters was rejected without a request.
C24_Witness ==
    /\ pc[1] = "rejected"
    /\ Len(recipients[1]) = 2
    /\ ~RowError(recipients[1][1])
    /\ recipients[1][2].address # 0
    /\ recipients[1][2].amount > 0
    /\ recipients[1][2].message = MaxMessageLen + 1
    /\ NoRequestBy(1)

\* What the sentence says a valid domain is: the suffix ".oct" after a
\* part of 3 to 32 letters, digits or hyphens with no hyphen at either end.
StatedValidDomain(domain) ==
    /\ Len(domain) >= 4
    /\ SubSeq(domain, Len(domain) - 3, Len(domain)) = <<".", "o", "c", "t">>
    /\ LET part == SubSeq(domain, 1, Len(domain) - 4) IN
         /\ Len(part) \in 3..32
         /\ \A k \in 1..Len(part) : part[k] \in Letters \cup Digits \cup {"-"}
         /\ part[1] # "-"
         /\ part[Len(part)] # "-"

DomainExamples ==
    /\ ~isValidDomainFormat(<<"a", "b", ".", "o", "c", "t">>)
    /\ ~validateDomain(<<"a", "b", ".", "o", "c", "t">>)
    /\ ~isValidDomainFormat(<<"-", "b", "a", "d", ".", "o", "c", "t">>)
    /\ ~validateDomain(<<"-", "b", "a", "d", ".", "o", "c", "t">>)
    /\ isValidDomainFormat(<<"M", "y", "-", "N", "a", "m", "e", "1",
                             ".", "o", "c", "t">>)
    /\ validateDomain(<<"M", "y", "-", "N", "a", "m", "e", "1",
                        ".", "o", "c", "t">>)

\* C27: the client's isValidDomainFormat and the backend's validateDomain
\* each accept a domain exactly when it ends with ".oct" and the part
\* before the suffix has 3 to 32 characters, all letters, digits or
\* hyphens, with no hyphen first or last; "ab.oct" and "-bad.oct" are
\* refused and "My-Name1.oct" is accepted by both.
C27_DomainFormat ==
    /\ \A k \in DOMAIN pure :
         pure[k].fn \in {"isValidDomainFormat", "validateDomain"} =>
           pure[k].result = StatedValidDomain(FormatInput.arg)
    /\ Called("isValidDomainFormat") => DomainExamples

\* Both validators have accepted a name with a hyphen inside.
C27_Witness ==
    /\ Len(pure) = 3
    /\ FormatInput.arg = <<"Z", "-", "a", "7">> \o OctSuffix
    /\ pure[2].result
    /\ pure[3].result
    /\ {pure[2].fn, pure[3].fn} = {"isValidDomainFormat", "validateDomain"}

\* C28, as stated: a 32-byte private key is imported from its Base64 text,
\* from its hex text with the 0x prefix and from its hex text without the
\* prefix, and every one of the three gives the wallet of that key.
C28_AllEncodingsAsStated ==
    \A k \in DOMAIN pure :
      (pure[k].fn = "importWalletFromPrivateKey" /\ FormatInput.arg.bytes = 32) =>
        /\ ~pure[k].result.threw
        /\ pure[k].result.privateKey = FormatInput.arg.key
        /\ pure[k].result.publicKey = PublicOf(FormatInput.arg.key)
        /\ pure[k].result.address = <<"oct", PublicOf(FormatInput.arg.key)>>

\* The amount a finished call adds to the encrypted balance.
Signed(op, amount) == IF op = "encryptBalance" THEN amount ELSE 0 - amount

\* The caller's call and the rival call have both returned success.
BothSucceeded ==
    /\ cpc = "idle"
    /\ outcome.op \in {"encryptBalance", "decryptBalance"}
    /\ outcome.success
    /\ rival.pc = "done"
    /\ rival.success

\* C30, as stated: whenever two encryptBalance/decryptBalance calls on one
\* address have both succeeded, in whatever order their requests were
\* served, the ciphertext the node holds (the one submitted last) encodes
\* the encrypted balance from before the two calls adjusted by both amounts.
C30_NoLostUpdateAsStated ==
    BothSucceeded =>
      encryptedRaw
        = rival.before + Signed(call.op, ToMicro(call.num, call.den))
                       + Signed(rival.op, rival.amount)

\* C31, as stated: in the claim view at most one claim request per transfer
\* id is in flight, and while a claim for a transfer is pending its Claim
\* button is disabled, whatever happens to claims for other transfers.
C31_OneClaimInFlightAsStated ==
    /\ \A r, q \in DOMAIN claimRuns :
         (r # q /\ claimRuns[r].pc = "claim" /\ claimRuns[q].pc = "claim") =>
           claimRuns[r].id # claimRuns[q].id
    /\ \A r \in DOMAIN claimRuns :
         claimRuns[r].pc = "claim" => claimingId = claimRuns[r].id

\* The multi-send of tab t ends in this step (its last batch is joined).
SendEnds(t) == pc[t] = "await" /\ pc'[t] = "done"

\* C32, as stated: when a multi-send ends with at least one success, the
\* nonce it reports through onNonceUpdate is at least the nonce of every
\* transaction of the call that succeeded, whichever transactions failed.
C32_ReportedNonceCoversAsStated ==
    [][\A t \in Tabs :
         SendEnds(t) =>
           \A k \in DOMAIN results'[t] :
             results'[t][k].success => nonce'[t] >= txs[t][k].tx.nonce]_vars

\* C33: a multi-send that ends resets the recipient form (no filled row is
\* left) exactly when every transaction succeeded; with a failure the
\* recipient list is left as it was, the recipients whose transaction
\* succeeded included, so that the list a next send would submit is the
\* whole list just sent.
C33_ResetOnlyOnFullSuccess ==
    [][\A t \in Tabs :
         SendEnds(t) =>
           IF \A k \in DOMAIN results'[t] : results'[t][k].success
           THEN /\ FilterValid(recipients'[t]) = <<>>
                /\ recipients'[t] # recipients[t]
           ELSE /\ recipients'[t] = recipients[t]
                /\ FilterValid(recipients'[t]) = validRecipients[t]
                /\ Len(validRecipients[t]) = Len(results'[t])]_vars

\* A multi-send of several recipients has ended with a success and a
\* failure, and the form still holds all of them.
C33_Witness ==
    \E t \in Tabs :
      /\ pc[t] = "done"
      /\ \E k, j \in DOMAIN results[t] :
           results[t][k].success /\ ~results[t][j].success
      /\ Len(recipients[t]) = Len(results[t])
      /\ Len(results[t]) > batchSize

\* The addresses of the entries of encryptedWallets.
SetUpAddresses ==
    {storage.encryptedWallets.items[k].address :
       k \in DOMAIN storage.encryptedWallets.items}

\* C34: after any sequence of addWallet, switchWallet to a listed wallet,
\* removeWallet and disconnectWallet, the active wallet is null exactly
\* when the wallet list is empty, is otherwise one of the list, and the
\* stored activeWalletId names it (and is absent when it is null).
C34_ActiveWalletListed ==
    /\ wallet = NoWallet <=> wallets = <<>>
    /\ wallet # NoWallet => \E k \in DOMAIN wallets : wallets[k] = wallet
    /\ storage.activeWalletId = IF wallet = NoWallet THEN Absent ELSE wallet

\* Both wallets were added and one has been removed: the other is active.
C34_Witness ==
    /\ ~isLocked
    /\ SetUpAddresses = WalletIds
    /\ Len(wallets) = 1
    /\ wallet = wallets[1]
    /\ storage.wallets = Stored(wallets)

\* C35: through addWallet and removeWallet the wallet list and its stored
\* copy never hold an address twice; adding an address that is listed
\* leaves the list as it is and only makes that wallet the active one.
C35_NoDuplicateWallets ==
    [][/\ \A k, j \in DOMAIN wallets' : wallets'[k] = wallets'[j] => k = j
       /\ \A k, j \in DOMAIN storage'.wallets.items :
            storage'.wallets.items[k] = storage'.wallets.items[j] => k = j
       /\ (/\ Len(storage'.encryptedWallets.items)
                > Len(storage.encryptedWallets.items)
           /\ \E k \in DOMAIN wallets : wallets[k] = wallet')
          => wallets' = wallets /\ storage'.wallets = storage.wallets]_vars

\* The same address went through the password setup twice and is listed
\* once.
C35_Witness ==
    /\ ~isLocked
    /\ Len(storage.encryptedWallets.items) = 2
    /\ Cardinality(SetUpAddresses) = 1
    /\ Len(wallets) = 1
    /\ wallets[1] \in SetUpAddresses

\* This step is a call of handleUnlock; its record is the last of pure'.
UnlockCalled ==
    /\ Len(pure') = Len(pure) + 1
    /\ pure'[Len(pure')].fn = "handleUnlock"

\* The password of the call is not the one whose hash is stored.
WrongPassword ==
    \/ pure'[Len(pure')].password \notin Passwords
    \/ hashPassword(pure'[Len(pure')].password).hashedPassword
         # storage.walletPasswordHash

\* C36: an unlock with a password that fails verification changes
\* nothing: the wallet stays locked, isWalletLocked and wallets in storage
\* are as before and onUnlock is not called; the decrypted wallets reach
\* storage and the application only in a call whose password verified.
C36_FailedUnlockChangesNothing ==
    [][UnlockCalled =>
         /\ WrongPassword =>
              /\ isLocked'
              /\ storage' = storage
              /\ wallet' = wallet
              /\ wallets' = wallets
              /\ ~pure'[Len(pure')].onUnlock
         /\ (\/ pure'[Len(pure')].onUnlock
             \/ storage'.wallets # storage.wallets
             \/ wallets' # wallets
             \/ ~isLocked') => ~WrongPassword]_vars

\* A wrong password was tried on a locked wallet that has encrypted
\* wallets, and then the right one unlocked it.
C36_Witness ==
    /\ Len(pure) = 2
    /\ pure[1].fn = "handleUnlock"
    /\ pure[1].password \in Passwords
    /\ ~pure[1].onUnlock
    /\ pure[2].fn = "handleUnlock"
    /\ pure[2].onUnlock
    /\ pure[2].unlockedWallets # <<>>
    /\ ~isLocked

\* The lower-cased domain a request asks for.
AskedDomain(req) == ToLowerCase(req.domain)

\* C37: however concurrent POST /register requests interleave, the
\* backend holds at most one registration per lower-cased domain; the row
\* of a request answered 201 stays its own (no later request overwrites
\* the address), and every other request for that domain that has been
\* answered got an error response (409 or 500, or 400 for a malformed one).
C37_OneRegistrationPerDomain ==
    /\ \A k, j \in DOMAIN domainRows :
         domainRows[k].domain = domainRows[j].domain => k = j
    /\ \A k \in DOMAIN domainRows :
         domainRows[k].domain = ToLowerCase(domainRows[k].domain)
    /\ \A r \in DOMAIN regs :
         regs[r].status = 201 =>
           /\ regs[r].id \in DOMAIN domainRows
           /\ domainRows[regs[r].id] = [domain |-> AskedDomain(regs[r]),
                                        address |-> regs[r].address]
           /\ \A q \in DOMAIN regs \ {r} :
                (/\ AskedDomain(regs[q]) = AskedDomain(regs[r])
                 /\ regs[q].pc = "done")
                  => regs[q].status \in {400, 409, 500}
    /\ \A r \in DOMAIN regs :
         regs[r].id # 0 =>
           /\ regs[r].id \in DOMAIN domainRows
           /\ domainRows[regs[r].id].address = regs[r].address

\* Two requests for the same domain in different case passed the SELECT
\* together: one was answered 201 and the other lost the race with 500.
C37_Witness ==
    \E r, q \in DOMAIN regs :
      /\ regs[r].domain # regs[q].domain
      /\ AskedDomain(regs[r]) = AskedDomain(regs[q])
      /\ regs[r].status = 201
      /\ regs[q].status = 500
      /\ regs[q].dbError = "unique"
      /\ Len(domainRows) = 1

\* C38: the route stores the domain whatever the verification of the
\* transaction gives: a well-formed request for an unregistered domain whose
\* database operations succeed has its domain inserted and is answered
\* 201, whether verifyTransaction returned true, returned false or threw.
C38_StoredWithoutVerification ==
    \A r \in DOMAIN regs :
      /\ (regs[r].pc = "done" /\ regs[r].isValidTx # "none"
          /\ regs[r].dbError = "none") =>
           /\ regs[r].status = 201
           /\ \E k \in DOMAIN domainRows :
                domainRows[k] = [domain |-> AskedDomain(regs[r]),
                                 address |-> regs[r].address]
      /\ regs[r].pc \in {"insert", "log"} =>
           regs[r].isValidTx \in {"true", "false", "throws"}

\* A request was answered 201, its domain stored, after a verification
\* that returned false.
C38_Witness ==
    \E r \in DOMAIN regs :
      /\ regs[r].status = 201
      /\ regs[r].isValidTx = "false"
      /\ regs[r].id \in DOMAIN domainRows
      /\ domainRows[regs[r].id].address = regs[r].address


====
